---- MODULE Spec2Model ----
(***************************************************************************)
(* Verification model of the Wortmann2Shopify catalog synchronisation:     *)
(* the differ, the rate-limited REST client, the apply operations, the     *)
(* create batching, the bulk export polling and the bulk reassembly.       *)
(* Each subsystem has its own specification over the shared variables.     *)
(***************************************************************************)
EXTENDS Integers, Sequences, FiniteSets, TLC

VARIABLES
    \* State Normalizer & Differ
    desired, actual, plan, ops, diffPc,
    \* bulk reassembly (process_bulk_results)
    results_raw, mapped, asmPc,
    \* rate-limited REST client (_rest_call)
    rc, sinceTs, sinceSend, overlap, chain, chainAgo,
    \* apply operations (create / update / delete of one item after the other)
    applyPc, applyPos, applyCtx, applyLog, applyResults, primary_location_id,
    \* create batching (send_products_batch)
    bN, bInput, bSize, bI, bPc, bTasks, bResults, bPauses, bRequests,
    \* bulk export (start, poll, download) and the shop's current bulk job
    job, bulkPc, bulkSubmitted, bulkElapsed, bulkSeen, bulkUrl, bulkDownloaded, bulkOutcome,
    \* record merger and canonical transformer (merge_data, process_products)
    products, images, warranties, merged_items, shopify_products, catPc

diffVars == <<desired, actual, plan, ops, diffPc>>
asmVars == <<results_raw, mapped, asmPc>>
restVars == <<rc, sinceTs, sinceSend, overlap, chain, chainAgo>>
applyVars == <<applyPc, applyPos, applyCtx, applyLog, applyResults, primary_location_id>>
batchVars == <<bN, bInput, bSize, bI, bPc, bTasks, bResults, bPauses, bRequests>>
bulkVars == <<job, bulkPc, bulkSubmitted, bulkElapsed, bulkSeen, bulkUrl, bulkDownloaded, bulkOutcome>>
catVars == <<products, images, warranties, merged_items, shopify_products, catPc>>
vars == <<diffVars, asmVars, restVars, applyVars, batchVars, bulkVars, catVars>>

\* what each subsystem leaves alone
notDiff == <<asmVars, restVars, applyVars, batchVars, bulkVars, catVars>>
notAsm == <<diffVars, restVars, applyVars, batchVars, bulkVars, catVars>>
notRest == <<diffVars, asmVars, applyVars, batchVars, bulkVars, catVars>>
notApply == <<diffVars, asmVars, restVars, batchVars, bulkVars, catVars>>
notBatch == <<diffVars, asmVars, restVars, applyVars, bulkVars, catVars>>
notBulk == <<diffVars, asmVars, restVars, applyVars, batchVars, catVars>>
notCat == <<diffVars, asmVars, restVars, applyVars, batchVars, bulkVars>>

None == "None"

\* ------------------------------------------------------------------------
\* Generic helpers
\* ------------------------------------------------------------------------
RECURSIVE InsertSorted(_, _)
InsertSorted(x, s) ==
    IF s = <<>> THEN <<x>>
    ELSE IF x <= Head(s) THEN <<x>> \o s
    ELSE <<Head(s)>> \o InsertSorted(x, Tail(s))

RECURSIVE SortedSeq(_)
SortedSeq(s) == IF s = <<>> THEN <<>> ELSE InsertSorted(Head(s), SortedSeq(Tail(s)))

RECURSIVE SeqsUpTo(_, _)
SeqsUpTo(S, n) ==
    IF n = 0 THEN {<<>>}
    ELSE LET shorter == SeqsUpTo(S, n - 1)
         IN shorter \cup {Append(s, x) : s \in {t \in shorter : Len(t) = n - 1}, x \in S}

Range(s) == {s[i] : i \in 1..Len(s)}

\* ------------------------------------------------------------------------
\* Idle values: a subsystem that a specification does not exercise
\* ------------------------------------------------------------------------
IdleDiff ==
    /\ desired = <<>>
    /\ actual = <<>>
    /\ plan = <<>>
    /\ ops = {}
    /\ diffPc = "idle"

IdleAsm ==
    /\ results_raw = <<>>
    /\ mapped = <<>>
    /\ asmPc = "idle"

IdleRest ==
    /\ rc = <<>>
    /\ sinceTs = 0
    /\ sinceSend = 0
    /\ overlap = FALSE
    /\ chain = 0
    /\ chainAgo = 0

IdleApply ==
    /\ applyPc = "idle"
    /\ applyPos = 0
    /\ applyCtx = <<>>
    /\ applyLog = <<>>
    /\ applyResults = <<>>
    /\ primary_location_id = 0

NoJob == [id |-> 0, status |-> None, url |-> FALSE]
NoOutcome == [kind |-> None, job |-> 0]

IdleBatch ==
    /\ bN = 0
    /\ bInput = [kind |-> None, val |-> 0]
    /\ bSize = 0
    /\ bI = 0
    /\ bPc = "idle"
    /\ bTasks = <<>>
    /\ bResults = <<>>
    /\ bPauses = 0
    /\ bRequests = 0

IdleBulk ==
    /\ job = NoJob
    /\ bulkPc = "idle"
    /\ bulkSubmitted = 0
    /\ bulkElapsed = 0
    /\ bulkSeen = {}
    /\ bulkUrl = 0
    /\ bulkDownloaded = 0
    /\ bulkOutcome = NoOutcome

IdleCat ==
    /\ products = <<>>
    /\ images = <<>>
    /\ warranties = <<>>
    /\ merged_items = <<>>
    /\ shopify_products = <<>>
    /\ catPc = "idle"

IdleBut(subsystem) ==
    /\ subsystem # "diff" => IdleDiff
    /\ subsystem # "asm" => IdleAsm
    /\ subsystem # "rest" => IdleRest
    /\ subsystem # "apply" => IdleApply
    /\ subsystem # "batch" => IdleBatch
    /\ subsystem # "bulk" => IdleBulk
    /\ subsystem # "cat" => IdleCat

\* ------------------------------------------------------------------------
\* State Normalizer & Differ (sync_with_database)
\* ------------------------------------------------------------------------
MaxHandles == 3
Handles == 1..MaxHandles

\* A product projection: a title and a tag list whose order is not significant
ProductValues ==
    { [title |-> "a", tags |-> <<1, 2>>],
      [title |-> "a", tags |-> <<2, 1>>],
      [title |-> "b", tags |-> <<1, 2>>] }

Indexes == UNION { [hs -> ProductValues] : hs \in SUBSET Handles }

normalize(p) == [title |-> p.title, tags |-> SortedSeq(p.tags)]

EmptyPlan == [toCreate |-> {}, toUpdate |-> {}, toDelete |-> {}, unchanged |-> {}]

\* faulty variant: every handle present on both sides is updated, without comparing
UpdateSet_NoCompare(D, A) == (DOMAIN D) \cap (DOMAIN A)

UpdateSet(D, A) ==
    {h \in (DOMAIN D) \cap (DOMAIN A) : normalize(D[h]) # normalize(A[h])}

ComputePlan(D, A) ==
    [toCreate  |-> (DOMAIN D) \ (DOMAIN A),
     toUpdate  |-> UpdateSet(D, A),
     toDelete  |-> (DOMAIN A) \ (DOMAIN D),
     unchanged |-> ((DOMAIN D) \cap (DOMAIN A)) \ UpdateSet(D, A)]

InitDiff ==
    /\ desired \in Indexes
    /\ actual \in Indexes
    /\ plan = EmptyPlan
    /\ ops = {}
    /\ diffPc = "start"
    /\ IdleBut("diff")

\* the differ recomputes the plan from the two live snapshots
SyncWithDatabase ==
    /\ diffPc \in {"start", "done"}
    /\ plan' = ComputePlan(desired, actual)
    /\ ops' = {}
    /\ diffPc' = "apply"
    /\ UNCHANGED <<desired, actual>>
    /\ UNCHANGED notDiff

PlannedOp(h) ==
    IF h \in plan.toCreate THEN "create"
    ELSE IF h \in plan.toUpdate THEN "update"
    ELSE IF h \in plan.toDelete THEN "delete"
    ELSE None

\* one create/update/delete operation of the plan is applied
ApplyPlanOp ==
    /\ diffPc = "apply"
    /\ \E h \in Handles :
         /\ PlannedOp(h) # None
         /\ \A o \in ops : o.handle # h
         /\ ops' = ops \cup {[handle |-> h, op |-> PlannedOp(h)]}
    /\ UNCHANGED <<desired, actual, plan, diffPc>>
    /\ UNCHANGED notDiff

ApplyPlanDone ==
    /\ diffPc = "apply"
    /\ \A h \in Handles : PlannedOp(h) # None => \E o \in ops : o.handle = h
    /\ diffPc' = "done"
    /\ UNCHANGED <<desired, actual, plan, ops>>
    /\ UNCHANGED notDiff

NextDiff ==
    \/ SyncWithDatabase
    \/ ApplyPlanOp
    \/ ApplyPlanDone

SpecDiff == InitDiff /\ [][NextDiff]_vars

\* order-insensitive equality of two product projections, stated without
\* normalize: same title, same tags with the same multiplicities
SameBag(s, t) ==
    /\ Len(s) = Len(t)
    /\ \A x \in Range(s) \cup Range(t) :
         Cardinality({i \in 1..Len(s) : s[i] = x}) = Cardinality({i \in 1..Len(t) : t[i] = x})
SameProjection(p, q) == p.title = q.title /\ SameBag(p.tags, q.tags)

\* C1: the plan is toCreate = D \ A, toDelete = A \ D, toUpdate = the common
\* handles whose normalized projections differ; the three sets are pairwise
\* disjoint, every desired handle is in exactly one of create/update/unchanged,
\* an unchanged handle receives no operation and an actual-only handle is
\* only deleted.
Thm_C1_DifferPlan ==
    diffPc \in {"apply", "done"} =>
        LET D == DOMAIN desired
            A == DOMAIN actual
        IN /\ plan.toCreate = D \ A
           /\ plan.toDelete = A \ D
           /\ plan.toUpdate = {h \in D \cap A : ~SameProjection(desired[h], actual[h])}
           /\ plan.toCreate \cap plan.toUpdate = {}
           /\ plan.toCreate \cap plan.toDelete = {}
           /\ plan.toUpdate \cap plan.toDelete = {}
           /\ \A h \in D :
                Cardinality({k \in {"toCreate", "toUpdate", "unchanged"} : h \in plan[k]}) = 1
           /\ \A o \in ops : o.handle \notin plan.unchanged
           /\ \A h \in A \ D :
                /\ h \in plan.toDelete
                /\ h \notin plan.toCreate \cup plan.toUpdate \cup plan.unchanged
                /\ \A o \in ops : o.handle = h => o.op = "delete"
           /\ diffPc = "done" =>
                /\ {o.handle : o \in {x \in ops : x.op = "create"}} = plan.toCreate
                /\ {o.handle : o \in {x \in ops : x.op = "update"}} = plan.toUpdate
                /\ {o.handle : o \in {x \in ops : x.op = "delete"}} = plan.toDelete

Wit_C1_DifferPlan ==
    /\ diffPc = "done"
    /\ plan.toCreate # {}
    /\ plan.toDelete # {}
    /\ \E h \in plan.unchanged : desired[h] # actual[h]
    /\ ops # {}

\* ------------------------------------------------------------------------
\* Bulk reassembly: process_bulk_results in fetch_all_products_bulk_full
\* ------------------------------------------------------------------------
MaxLines == 4

\* a global id "gid://shopify/<Type>/<n>" is the pair <<Type, n>>
NoGid == <<"", 0>>
Gid(type, n) == <<type, n>>
gid_to_numeric_id(gid) == IF gid = NoGid THEN 0 ELSE gid[2]

ProductLine(n, h, t) ==
    [tn |-> "Product", id |-> Gid("Product", n), handle |-> h, title |-> t,
     parent |-> NoGid, url |-> None]
VariantLine(n, q) ==
    [tn |-> "ProductVariant", id |-> Gid("ProductVariant", n), handle |-> None,
     title |-> None, parent |-> Gid("Product", q), url |-> None]
ImageLine(q) ==
    [tn |-> "ProductImage", id |-> Gid("ProductImage", q), handle |-> None,
     title |-> None, parent |-> Gid("Product", q), url |-> "u1"]
MetafieldLine(q) ==
    [tn |-> "Metafield", id |-> Gid("Metafield", q), handle |-> None,
     title |-> None, parent |-> Gid("Product", q), url |-> None]

ProductLines ==
    { ProductLine(1, "h1", "t1"), ProductLine(1, "h1", "t2"),
      ProductLine(2, "h1", "t1"), ProductLine(2, "h2", "t1") }
VariantLines == { VariantLine(1, 1), VariantLine(2, 1), VariantLine(1, 2) }
ImageLines == { ImageLine(1), ImageLine(2) }
MetafieldLines == { MetafieldLine(1) }
BulkLines == ProductLines \cup VariantLines \cup ImageLines \cup MetafieldLines

\* keys of the products dict, in order of first insertion
RECURSIVE ProductOrder(_, _)
ProductOrder(stream, acc) ==
    IF stream = <<>> THEN acc
    ELSE LET node == Head(stream)
         IN IF node.tn = "Product" /\ node.id # NoGid /\ node.id \notin Range(acc)
            THEN ProductOrder(Tail(stream), Append(acc, node.id))
            ELSE ProductOrder(Tail(stream), acc)

\* products[product_id] = node: a later line with the same id overwrites
ProductNode(stream, g) ==
    stream[CHOOSE i \in 1..Len(stream) :
             /\ stream[i].tn = "Product" /\ stream[i].id = g
             /\ \A j \in (i + 1)..Len(stream) : ~(stream[j].tn = "Product" /\ stream[j].id = g)]

RECURSIVE ChildrenAfterProduct(_, _, _, _)
ChildrenAfterProduct(stream, tn, g, seen) ==
    IF stream = <<>> THEN <<>>
    ELSE LET node == Head(stream)
             nowSeen == seen \/ (node.tn = "Product" /\ node.id = g)
         IN IF seen /\ node.tn = tn /\ node.parent # NoGid /\ node.parent = g
            THEN <<node>> \o ChildrenAfterProduct(Tail(stream), tn, g, nowSeen)
            ELSE ChildrenAfterProduct(Tail(stream), tn, g, nowSeen)

\* faulty variant: a single pass that attaches a child only to a product already read
ChildrenByParent_SinglePass(stream, tn, g) == ChildrenAfterProduct(stream, tn, g, FALSE)

\* variants_by_parent[g] / images_by_parent[g]: the child lines in stream order
ChildrenByParent(stream, tn, g) ==
    SelectSeq(stream, LAMBDA node : node.tn = tn /\ node.parent # NoGid /\ node.parent = g)

MapVariant(variant_node) == [id |-> gid_to_numeric_id(variant_node.id)]

\* image lines without a url are skipped
RECURSIVE MapImages(_)
MapImages(nodes) ==
    IF nodes = <<>> THEN <<>>
    ELSE IF Head(nodes).url # None
         THEN <<[src |-> Head(nodes).url]>> \o MapImages(Tail(nodes))
         ELSE MapImages(Tail(nodes))

MappedProduct(stream, g) ==
    LET product_node == ProductNode(stream, g)
        variant_nodes == ChildrenByParent(stream, "ProductVariant", g)
    IN [id       |-> gid_to_numeric_id(product_node.id),
        handle   |-> product_node.handle,
        title    |-> product_node.title,
        variants |-> [i \in 1..Len(variant_nodes) |-> MapVariant(variant_nodes[i])],
        images   |-> MapImages(ChildrenByParent(stream, "ProductImage", g))]

\* the second loop: products in dict order, skipping a handle already seen
RECURSIVE MapProducts(_, _, _, _)
MapProducts(stream, order, seen_handles, acc) ==
    IF order = <<>> THEN acc
    ELSE LET g == Head(order)
             handle == ProductNode(stream, g).handle
         IN IF handle # None /\ handle \in seen_handles
            THEN MapProducts(stream, Tail(order), seen_handles, acc)
            ELSE MapProducts(stream, Tail(order),
                             IF handle # None THEN seen_handles \cup {handle} ELSE seen_handles,
                             Append(acc, MappedProduct(stream, g)))

process_bulk_results(stream) == MapProducts(stream, ProductOrder(stream, <<>>), {}, <<>>)

InitAsm ==
    /\ results_raw \in SeqsUpTo(BulkLines, MaxLines)
    /\ mapped = <<>>
    /\ asmPc = "start"
    /\ IdleBut("asm")

ProcessBulkResults ==
    /\ asmPc = "start"
    /\ mapped' = process_bulk_results(results_raw)
    /\ asmPc' = "done"
    /\ UNCHANGED results_raw
    /\ UNCHANGED notAsm

NextAsm == ProcessBulkResults

SpecAsm == InitAsm /\ [][NextAsm]_vars

Reverse(s) == [i \in 1..Len(s) |-> s[Len(s) + 1 - i]]

\* the child lines of type tn that name product g as their parent
ChildIndexes(stream, tn, g) ==
    {j \in 1..Len(stream) : stream[j].tn = tn /\ stream[j].parent = g}

AttachedExactly(stream, item) ==
    LET g == Gid("Product", item.id)
        vs == ChildIndexes(stream, "ProductVariant", g)
        is == ChildIndexes(stream, "ProductImage", g)
    IN /\ Len(item.variants) = Cardinality(vs)
       /\ {v.id : v \in Range(item.variants)} = {stream[j].id[2] : j \in vs}
       /\ Len(item.images) = Cardinality(is)
       /\ {m.src : m \in Range(item.images)} = {stream[j].url : j \in is}

\* C9: whatever the order of the lines, every reassembled product carries
\* exactly the variant and image records whose __parentId is its id; the same
\* holds of the stream read in the opposite order.
Thm_C9_ReassemblyOrderIndependent ==
    asmPc = "done" =>
        /\ \A i \in 1..Len(mapped) : AttachedExactly(results_raw, mapped[i])
        /\ LET back == process_bulk_results(Reverse(results_raw))
           IN \A i \in 1..Len(back) : AttachedExactly(results_raw, back[i])

\* one product line, two variant lines and one image line, a variant first
Wit_C9_ReassemblyOrderIndependent ==
    /\ asmPc = "done"
    /\ Len(results_raw) = 4
    /\ results_raw[1].tn = "ProductVariant"
    /\ results_raw[4].tn = "Product"
    /\ Len(mapped) = 1
    /\ Len(mapped[1].variants) = 2
    /\ Len(mapped[1].images) = 1

\* the product lines that enter the products dict
RootIndexes(stream) == {j \in 1..Len(stream) : stream[j].tn = "Product" /\ stream[j].id # NoGid}

\* every product id of the stream bears one handle
OneHandlePerId(stream) ==
    \A j, k \in RootIndexes(stream) :
        stream[j].id = stream[k].id => stream[j].handle = stream[k].handle

\* C10: for every handle borne by a root product line the output holds exactly
\* one item, built from the first line in stream order that bears the handle
\* (stated for the streams in which a product id bears a single handle).
CE_C10_FirstOccurrenceWins ==
    (asmPc = "done" /\ OneHandlePerId(results_raw)) =>
        \A j \in RootIndexes(results_raw) :
            (\A k \in RootIndexes(results_raw) : results_raw[k].handle = results_raw[j].handle => j <= k)
            => /\ Cardinality({i \in 1..Len(mapped) : mapped[i].handle = results_raw[j].handle}) = 1
               /\ \E i \in 1..Len(mapped) :
                    /\ mapped[i].handle = results_raw[j].handle
                    /\ mapped[i].id = results_raw[j].id[2]
                    /\ mapped[i].title = results_raw[j].title

\* ------------------------------------------------------------------------
\* Rate-limited REST client: ShopifyService._rest_call
\* Time is counted in ticks of 0.05 s.
\* ------------------------------------------------------------------------
MinSpacing == 11
InitialBackoff == 12
MaxBackoff == 160
max_retries == 6
ReadTimeoutTicks == 1200

\* clocks saturate at ClockCap; at most MaxCalls calls are counted in a chain
ClockCap == 12
MaxCalls == 3
ChainCap == MaxCalls * MinSpacing

Statuses == {200, 404, 429, 501, 503}
NoResp == [status |-> 0, attempt |-> 0]

\* the Retry-After header: absent, not a number, or a number of ticks
RetryAfterValues ==
    { [kind |-> "absent", ticks |-> 0], [kind |-> "invalid", ticks |-> 0],
      [kind |-> "seconds", ticks |-> 0], [kind |-> "seconds", ticks |-> 20] }

Min(a, b) == IF a < b THEN a ELSE b
Max(a, b) == IF a < b THEN b ELSE a
Cap(t) == Min(Max(t, 0), ClockCap)

Retryable(status) == status \in {429, 500, 502, 503, 504}

\* faulty variant: no spacing sleep
SpacingSleep_None(since) == 0

\* if since < 0.55: sleep(0.55 - since)
SpacingSleep(since) == IF since < MinSpacing THEN MinSpacing - since ELSE 0

WaitFor(retry_after, backoff) ==
    IF retry_after.kind = "seconds" THEN retry_after.ticks ELSE backoff

NextBackoff(backoff) == Min(backoff * 2, MaxBackoff)

IdleCall ==
    [pc |-> "idle", attempt |-> 0, backoff |-> InitialBackoff, resp |-> NoResp,
     rem |-> 0, wait |-> 0, last |-> "none"]

Ended(p) == rc[p].pc \in {"idle", "returned", "raised"}

InitRest ==
    /\ rc = [p \in {"c1"} |-> IdleCall]
    /\ sinceTs = ClockCap
    /\ sinceSend = ClockCap
    /\ overlap = FALSE
    /\ chain = 0
    /\ chainAgo = 0
    /\ IdleBut("rest")

\* time passes: the clocks advance, sleeps and the request timeout run down
Tick ==
    /\ sinceTs' = Cap(sinceTs + 1)
    /\ sinceSend' = Cap(sinceSend + 1)
    /\ chainAgo' = IF chain = 0 THEN 0 ELSE Min(chainAgo + 1, ChainCap)
    /\ rc' = [p \in DOMAIN rc |-> [rc[p] EXCEPT !.rem = Max(rc[p].rem - 1, 0)]]
    /\ UNCHANGED <<overlap, chain>>
    /\ UNCHANGED notRest

\* entry of _rest_call: since = now - _last_rest_ts, then the spacing sleep;
\* calls follow one another, or each concurrent caller makes one call
RestCallStart(p) ==
    /\ Ended(p)
    /\ chain < MaxCalls
    /\ ~overlap => \A q \in DOMAIN rc : Ended(q)
    /\ overlap => rc[p].pc = "idle"
    /\ rc' = [rc EXCEPT ![p] = [IdleCall EXCEPT !.pc = "spacing",
                                               !.rem = Cap(SpacingSleep(sinceTs))]]
    /\ UNCHANGED <<sinceTs, sinceSend, overlap, chain, chainAgo>>
    /\ UNCHANGED notRest

\* client.request is issued for the next attempt
SendRequest(p) ==
    /\ rc' = [rc EXCEPT ![p].pc = "inflight", ![p].attempt = @ + 1,
                        ![p].rem = Cap(ReadTimeoutTicks)]
    /\ sinceSend' = 0
    /\ IF rc[p].attempt = 0
       THEN /\ chain' = chain + 1
            /\ chainAgo' = IF chain = 0 THEN 0 ELSE chainAgo
       ELSE UNCHANGED <<chain, chainAgo>>
    /\ UNCHANGED <<sinceTs, overlap>>

RestFirstRequest(p) ==
    /\ rc[p].pc = "spacing"
    /\ rc[p].rem = 0
    /\ SendRequest(p)
    /\ UNCHANGED notRest

\* a response arrives: _last_rest_ts = now, then retry or return
RestResponse(p) ==
    /\ rc[p].pc = "inflight"
    /\ \E status \in Statuses, retry_after \in RetryAfterValues :
         LET wait_s == WaitFor(retry_after, rc[p].backoff)
         IN rc' = [rc EXCEPT ![p] =
                IF Retryable(status)
                THEN [@ EXCEPT !.pc = "backoff", !.rem = Cap(wait_s), !.wait = wait_s,
                               !.backoff = NextBackoff(@),
                               !.resp = [status |-> status, attempt |-> rc[p].attempt],
                               !.last = "response"]
                ELSE [@ EXCEPT !.pc = "returned", !.rem = 0,
                               !.resp = [status |-> status, attempt |-> rc[p].attempt],
                               !.last = "response"]]
    /\ sinceTs' = 0
    /\ UNCHANGED <<sinceSend, overlap, chain, chainAgo>>
    /\ UNCHANGED notRest

\* httpx.ReadTimeout after the 60 s timeout: sleep(backoff) and continue
RestReadTimeout(p) ==
    /\ rc[p].pc = "inflight"
    /\ rc[p].rem = 0
    /\ rc' = [rc EXCEPT ![p].pc = "backoff", ![p].rem = Cap(rc[p].backoff),
                        ![p].wait = rc[p].backoff, ![p].backoff = NextBackoff(@),
                        ![p].last = "timeout"]
    /\ UNCHANGED <<sinceTs, sinceSend, overlap, chain, chainAgo>>
    /\ UNCHANGED notRest

\* any other exception of the HTTP layer leaves _rest_call
RestRequestError(p) ==
    /\ rc[p].pc = "inflight"
    /\ rc' = [rc EXCEPT ![p].pc = "raised", ![p].rem = 0, ![p].last = "error"]
    /\ chain' = 0
    /\ chainAgo' = 0
    /\ UNCHANGED <<sinceTs, sinceSend, overlap>>
    /\ UNCHANGED notRest

\* after the retry sleep: the next attempt
RestRetry(p) ==
    /\ rc[p].pc = "backoff"
    /\ rc[p].rem = 0
    /\ rc[p].attempt < max_retries
    /\ SendRequest(p)
    /\ UNCHANGED notRest

\* after the last retry sleep the loop is over: return resp, which is unbound
\* when no attempt got a response
RestExhausted(p) ==
    /\ rc[p].pc = "backoff"
    /\ rc[p].rem = 0
    /\ rc[p].attempt >= max_retries
    /\ IF rc[p].resp # NoResp
       THEN /\ rc' = [rc EXCEPT ![p].pc = "returned"]
            /\ UNCHANGED <<chain, chainAgo>>
       ELSE /\ rc' = [rc EXCEPT ![p].pc = "raised"]
            /\ chain' = 0
            /\ chainAgo' = 0
    /\ UNCHANGED <<sinceTs, sinceSend, overlap>>
    /\ UNCHANGED notRest

NextRest ==
    \/ Tick
    \/ \E p \in DOMAIN rc : RestCallStart(p)
    \/ \E p \in DOMAIN rc : RestFirstRequest(p)
    \/ \E p \in DOMAIN rc : RestResponse(p)
    \/ \E p \in DOMAIN rc : RestReadTimeout(p)
    \/ \E p \in DOMAIN rc : RestRequestError(p)
    \/ \E p \in DOMAIN rc : RestRetry(p)
    \/ \E p \in DOMAIN rc : RestExhausted(p)

SpecRest == InitRest /\ [][NextRest]_vars

ClaimedRetryable(status) == status = 429 \/ status \in 500..599

\* C3: a 429 or any 5xx response is retried, up to max_retries attempts in
\* total; every other response ends the call at that attempt, with no retry.
CE_C3_RetryClassification ==
    \A p \in DOMAIN rc :
        /\ rc[p].attempt <= max_retries
        /\ (rc[p].pc = "returned" /\ rc[p].last = "response" /\ rc[p].attempt < max_retries)
              => ~ClaimedRetryable(rc[p].resp.status)
        /\ (rc[p].pc = "backoff" /\ rc[p].last = "response")
              => ClaimedRetryable(rc[p].resp.status)

\* the first request of a call is sent
FirstSend(p) == rc[p].pc = "spacing" /\ rc'[p].pc = "inflight"

\* C4: when each call starts after the previous one returned, the first
\* request of a call is sent at least MinSpacing after the last request of the
\* call before it, and the N-th call of a chain sends its first request at
\* least (N-1) * MinSpacing after the first call did.
Thm_C4_RateLimiterSpacing ==
    /\ [](~overlap => (chain >= 1 => chainAgo >= (chain - 1) * MinSpacing))
    /\ [][\A p \in DOMAIN rc :
            (~overlap /\ chain >= 1 /\ FirstSend(p)) => sinceSend >= MinSpacing]_vars

\* the backoff in force at the k-th retry: 0.6 s doubled k-1 times, at most 8 s
RECURSIVE BackoffStep(_)
BackoffStep(k) == IF k <= 1 THEN InitialBackoff ELSE Min(2 * BackoffStep(k - 1), MaxBackoff)

HintedWaits == {h.ticks : h \in {v \in RetryAfterValues : v.kind = "seconds"}}

\* C18: the wait before the k-th retry is min(0.6 * 2^(k-1), 8) s, or the
\* Retry-After hint when the response carries a parseable one; so the delay
\* before the retry that follows a retryable response is never below the
\* minimum backoff step of 0.6 s.
CE_C18_RetryDelay ==
    \A p \in DOMAIN rc :
        rc[p].pc = "backoff" =>
            /\ rc[p].wait = BackoffStep(rc[p].attempt) \/ rc[p].wait \in HintedWaits
            /\ rc[p].last = "response" => rc[p].wait >= InitialBackoff

\* C29: whatever the outcomes of its attempts (retryable status, other
\* status, read timeout), _rest_call ends by returning the response of its
\* final attempt: never the response of an earlier attempt, and never without
\* a response.
CE_C29_ReturnsFinalResponse ==
    \A p \in DOMAIN rc :
        /\ rc[p].pc = "returned" => (rc[p].resp # NoResp /\ rc[p].resp.attempt = rc[p].attempt)
        /\ rc[p].pc = "raised" => rc[p].last = "error"

\* three back-to-back calls, each sent exactly MinSpacing after the other
Wit_C4_RateLimiterSpacing ==
    /\ chain = 3
    /\ chainAgo = 2 * MinSpacing
    /\ sinceSend = 0
    /\ \E p \in DOMAIN rc : rc[p].pc = "inflight" /\ rc[p].attempt = 1

\* Two coroutines on the one shared service instance: get_shopify_service
\* hands the same ShopifyService to every endpoint call, so two update
\* requests in flight run _rest_call at the same time and interleave at its
\* awaits. Each coroutine makes one call, followed from its entry to its
\* first response; the retries of a call are followed in SpecRest.
InitRestConcurrent ==
    /\ rc = [p \in {"c1", "c2"} |-> IdleCall]
    /\ sinceTs = ClockCap
    /\ sinceSend = ClockCap
    /\ overlap = TRUE
    /\ chain = 0
    /\ chainAgo = 0
    /\ IdleBut("rest")

NextRestConcurrent ==
    \/ Tick
    \/ \E p \in DOMAIN rc : RestCallStart(p)
    \/ \E p \in DOMAIN rc : RestFirstRequest(p)
    \/ \E p \in DOMAIN rc : RestResponse(p)
    \/ \E p \in DOMAIN rc : RestRequestError(p)

SpecRestConcurrent == InitRestConcurrent /\ [][NextRestConcurrent]_vars

\* C19: when several coroutines call _rest_call on the same service
\* instance concurrently, any two requests are still sent at least MinSpacing
\* apart: no request is sent less than MinSpacing after the request before it.
CE_C19_SpacingUnderInterleaving ==
    [][\A p \in DOMAIN rc : FirstSend(p) => sinceSend >= MinSpacing]_vars

\* ------------------------------------------------------------------------
\* Apply operations: _send_single_product, update_product_by_handle and
\* delete_product_by_id, called for one item after the other by the endpoint
\* loops. A _rest_call is taken by its outcome: a response or an exception.
\* ------------------------------------------------------------------------
MaxItems == 2
MaxOptions == 2

ApplyStatuses == {200, 201, 204, 404, 503}
Response(status) == [kind |-> "response", status |-> status, exc |-> None]
Raises(exc) == [kind |-> "raise", status |-> 0, exc |-> exc]

\* a request made directly on the httpx client
ClientOutcomes ==
    {Response(st) : st \in ApplyStatuses} \cup {Raises("ConnectError"), Raises("ReadTimeout")}
\* _rest_call returns a response (of any status once retries are exhausted),
\* lets an HTTP-layer exception through, or fails on the unbound resp
RestCallOutcomes ==
    {Response(st) : st \in ApplyStatuses} \cup {Raises("ConnectError"), Raises("UnboundLocalError")}

Request(method, target, via) == [method |-> method, target |-> target, via |-> via]
Result(op, status, cause) == [op |-> op, status |-> status, cause |-> cause]

\* the candidate set of the resolver, {handle, lower, upper, prod-<pid>,
\* PROD-<pid>}, and whether the handle reads prod-<pid> in any case: "123"
\* has one candidate, "abc" two, "prod-123" two, "prod-ab" three
HandleShapes ==
    { [candidates |-> 1, prod |-> FALSE], [candidates |-> 2, prod |-> FALSE],
      [candidates |-> 2, prod |-> TRUE], [candidates |-> 3, prod |-> TRUE] }

Lookup(by, tried, sku, shape) ==
    [by |-> by, tried |-> tried, sku |-> sku, candidates |-> shape.candidates, prod |-> shape.prod]
NoLookup == [by |-> "none", tried |-> 0, sku |-> FALSE, candidates |-> 0, prod |-> FALSE]

\* get_product_by_handle, then _resolve_product_id_by_handle_or_sku: how the
\* product id was found, how many handle lookups were made in the resolver
\* and whether the SKU search was made
LookupOutcomes ==
    {[NoLookup EXCEPT !.by = "exact"]}
        \cup UNION {{Lookup("variant", k, FALSE, shape) : k \in 1..shape.candidates} : shape \in HandleShapes}
        \cup {Lookup("sku", shape.candidates, TRUE, shape) : shape \in {h \in HandleShapes : h.prod}}
        \cup {Lookup("missing", shape.candidates, shape.prod, shape) : shape \in HandleShapes}

HandleLookup == Request("POST", "graphql:productByHandle", "_graphql")
SkuSearch == Request("POST", "graphql:products", "_graphql")

\* faulty variant: the SKU search is made before the candidates are tried
LookupLog_SkuFirst(found) ==
    <<HandleLookup>> \o (IF found.sku THEN <<SkuSearch>> ELSE <<>>)
        \o [i \in 1..found.tried |-> HandleLookup]

\* the exact lookup, the candidates in turn up to the first hit, and the SKU
\* search when all of them missed
LookupLog(found) ==
    <<HandleLookup>> \o [i \in 1..found.tried |-> HandleLookup]
        \o (IF found.sku THEN <<SkuSearch>> ELSE <<>>)

\* faulty variant: only errors of the HTTP layer are caught
UpdateCatches_HttpOnly(exc) == exc \in {"ConnectError", "ReadTimeout"}

\* except Exception around update_product_by_handle
UpdateCatches(exc) == TRUE
\* except Exception around _send_single_product
SendCatches(exc) == TRUE
\* except Exception around delete_product_by_id
DeleteCatches(exc) == TRUE

DefaultCtx(op) ==
    [op |-> op, nvariants |-> 1, warranty |-> FALSE, sndEmpty |-> FALSE, accEmpty |-> FALSE,
     tracking |-> FALSE, target |-> FALSE,
     listed |-> [snd |-> "unlisted", acc |-> "unlisted"],
     enable |-> [variant |-> "none", inventory_item |-> "none"],
     found |-> NoLookup, put |-> "none"]

\* the variants of an update payload: none, the single variant of a product
\* without warranty group (or of the fallback), or one variant per warranty
\* option of the product's group
PayloadShapes ==
    {[nvariants |-> 0, warranty |-> FALSE], [nvariants |-> 1, warranty |-> FALSE]}
        \cup {[nvariants |-> n, warranty |-> TRUE] : n \in 1..MaxOptions}

InitApply ==
    /\ applyPc = "next"
    /\ applyPos = 0
    /\ applyCtx = DefaultCtx("none")
    /\ applyLog = <<>>
    /\ applyResults = <<>>
    /\ primary_location_id = 0
    /\ IdleBut("apply")

\* the operation returns its status record and the loop goes on
Finish(result) ==
    /\ applyResults' = Append(applyResults, result)
    /\ applyPos' = applyPos + 1
    /\ applyPc' = "next"

\* the operation raises into the loop around it
Abort ==
    /\ applyPc' = "aborted"
    /\ UNCHANGED <<applyPos, applyResults>>

Goto(pc) ==
    /\ applyPc' = pc
    /\ UNCHANGED <<applyPos, applyResults>>

Sent(request) == applyLog' = Append(applyLog, request)

\* the loop takes the next item
ApplyBegin ==
    /\ applyPc = "next"
    /\ applyPos < MaxItems
    /\ \E op \in {"create", "update", "delete"}, shape \in PayloadShapes,
          se \in BOOLEAN, ae \in BOOLEAN :
         /\ op # "update" => (shape = [nvariants |-> 1, warranty |-> FALSE] /\ ~se /\ ~ae)
         /\ applyCtx' = [DefaultCtx(op) EXCEPT !.nvariants = shape.nvariants,
                                               !.warranty = shape.warranty,
                                               !.sndEmpty = se, !.accEmpty = ae]
         /\ applyPc' = IF op = "update" THEN "lookup" ELSE op
    /\ applyLog' = <<>>
    /\ UNCHANGED <<applyPos, applyResults, primary_location_id>>
    /\ UNCHANGED notApply

ApplyLoopDone ==
    /\ applyPc = "next"
    /\ applyPos = MaxItems
    /\ applyPc' = "done"
    /\ UNCHANGED <<applyPos, applyCtx, applyLog, applyResults, primary_location_id>>
    /\ UNCHANGED notApply

\* _send_single_product: POST products.json directly on the client
SendSingleProduct ==
    /\ applyPc = "create"
    /\ Sent(Request("POST", "products", "client"))
    /\ \E o \in ClientOutcomes, jsonOk \in BOOLEAN :
         IF o.kind = "raise"
         THEN IF SendCatches(o.exc) THEN Finish(Result("create", "error", "exception")) ELSE Abort
         ELSE IF o.status = 201
              THEN IF jsonOk THEN Finish(Result("create", "success", "ok"))
                   ELSE IF SendCatches("ValueError")
                        THEN Finish(Result("create", "error", "exception")) ELSE Abort
              ELSE /\ jsonOk
                   /\ Finish(Result("create", "error", "response"))
    /\ UNCHANGED <<applyCtx, primary_location_id>>
    /\ UNCHANGED notApply

\* delete_product_by_id: DELETE products/<id>.json directly on the client
DeleteProductById ==
    /\ applyPc = "delete"
    /\ Sent(Request("DELETE", "product", "client"))
    /\ \E o \in ClientOutcomes :
         IF o.kind = "raise"
         THEN IF DeleteCatches(o.exc) THEN Finish(Result("delete", "error", "exception")) ELSE Abort
         ELSE IF o.status \in {200, 204}
              THEN Finish(Result("delete", "success", "ok"))
              ELSE Finish(Result("delete", "error", "response"))
    /\ UNCHANGED <<applyCtx, primary_location_id>>
    /\ UNCHANGED notApply

\* update_product_by_handle: resolve the product id
UpdateLookup ==
    /\ applyPc = "lookup"
    /\ \E found \in LookupOutcomes :
         /\ applyLog' = applyLog \o LookupLog(found)
         /\ applyCtx' = [applyCtx EXCEPT !.found = found]
         /\ IF found.by = "missing"
            THEN Finish(Result("update", "error", "not_found"))
            ELSE Goto("put")
    /\ UNCHANGED primary_location_id
    /\ UNCHANGED notApply

\* faulty variant: without inventory sync the next-delivery sync is skipped
AfterPut_SkipsNextDelivery(nvariants) == IF nvariants = 1 THEN "inv_get" ELSE "acc_list"

\* the inventory sync is entered for at most one variant and returns at once
\* for none
AfterPut(nvariants) == IF nvariants = 1 THEN "inv_get" ELSE "snd_list"

\* how the primary PUT ended: an exception, a status other than 200, a 200
\* whose body response.json() cannot parse, or a 200 with its body parsed
PutOutcome(o, jsonOk) ==
    IF o.kind = "raise" THEN "raised"
    ELSE IF o.status # 200 THEN "other"
    ELSE IF jsonOk THEN "200" ELSE "200 unparsable"

\* update_product_by_handle: the primary PUT through _rest_call
UpdatePut ==
    /\ applyPc = "put"
    /\ Sent(Request("PUT", "product", "_rest_call"))
    /\ \E o \in RestCallOutcomes, jsonOk \in BOOLEAN :
         /\ applyCtx' = [applyCtx EXCEPT !.put = PutOutcome(o, jsonOk)]
         /\ IF o.kind = "raise"
            THEN /\ jsonOk
                 /\ IF UpdateCatches(o.exc) THEN Finish(Result("update", "error", "exception")) ELSE Abort
            ELSE IF o.status = 200
                 THEN IF jsonOk THEN Goto(AfterPut(applyCtx.nvariants))
                      ELSE IF UpdateCatches("ValueError")
                           THEN Finish(Result("update", "error", "exception")) ELSE Abort
                 ELSE /\ jsonOk
                      /\ Finish(Result("update", "error", "response"))
    /\ UNCHANGED primary_location_id
    /\ UNCHANGED notApply

\* _update_inventory_for_product: GET the product for its inventory item
InvGetProduct ==
    /\ applyPc = "inv_get"
    /\ Sent(Request("GET", "product", "_rest_call"))
    /\ \E o \in RestCallOutcomes, usable \in BOOLEAN, tracking \in BOOLEAN :
         IF o.kind = "response" /\ o.status = 200 /\ usable
         THEN /\ applyCtx' = [applyCtx EXCEPT !.tracking = tracking]
              /\ Goto("inv_loc")
         ELSE /\ ~usable /\ ~tracking
              /\ UNCHANGED applyCtx
              /\ Goto("snd_list")
    /\ UNCHANGED primary_location_id
    /\ UNCHANGED notApply

\* faulty variant: the level is set without looking at tracking
AfterLocation_AlwaysSet(tracking) == "inv_set"

\* if not tracking_enabled: the two enable calls come before the set call
AfterLocation(tracking) == IF tracking THEN "inv_set" ELSE "inv_vput"

\* _get_primary_location_id (cached in the service), then the expected quantity
InvGetLocation ==
    /\ applyPc = "inv_loc"
    /\ IF primary_location_id # 0
       THEN /\ UNCHANGED <<applyLog, primary_location_id>>
            /\ \E qtyFound \in BOOLEAN :
                 Goto(IF qtyFound THEN AfterLocation(applyCtx.tracking) ELSE "snd_list")
       ELSE /\ Sent(Request("GET", "locations", "_rest_call"))
            /\ \E o \in RestCallOutcomes, hasLocation \in BOOLEAN, qtyFound \in BOOLEAN :
                 IF o.kind = "response" /\ o.status = 200 /\ hasLocation
                 THEN /\ primary_location_id' = 1
                      /\ Goto(IF qtyFound THEN AfterLocation(applyCtx.tracking) ELSE "snd_list")
                 ELSE /\ ~hasLocation /\ ~qtyFound
                      /\ UNCHANGED primary_location_id
                      /\ Goto("snd_list")
    /\ UNCHANGED applyCtx
    /\ UNCHANGED notApply

\* enable inventory_management on the variant
InvEnableVariant ==
    /\ applyPc = "inv_vput"
    /\ Sent(Request("PUT", "variant", "_rest_call"))
    /\ \E o \in RestCallOutcomes :
         LET ok == o.kind = "response" /\ o.status \in {200, 201}
         IN /\ applyCtx' = [applyCtx EXCEPT !.enable.variant = IF ok THEN "ok" ELSE "failed"]
            /\ Goto(IF ok THEN "inv_iiput" ELSE "snd_list")
    /\ UNCHANGED primary_location_id
    /\ UNCHANGED notApply

\* enable tracking on the inventory item
InvEnableItem ==
    /\ applyPc = "inv_iiput"
    /\ Sent(Request("PUT", "inventory_item", "_rest_call"))
    /\ \E o \in RestCallOutcomes :
         LET ok == o.kind = "response" /\ o.status \in {200, 201}
         IN /\ applyCtx' = [applyCtx EXCEPT !.enable.inventory_item = IF ok THEN "ok" ELSE "failed"]
            /\ Goto(IF ok THEN "inv_set" ELSE "snd_list")
    /\ UNCHANGED primary_location_id
    /\ UNCHANGED notApply

\* set the inventory level
InvSetLevel ==
    /\ applyPc = "inv_set"
    /\ Sent(Request("POST", "inventory_levels/set", "_rest_call"))
    /\ \E o \in RestCallOutcomes : Goto("snd_list")
    /\ UNCHANGED <<applyCtx, primary_location_id>>
    /\ UNCHANGED notApply

MetafieldKeys == {"snd", "acc"}
MetafieldName(k) == IF k = "snd" THEN "StockNextDelivery" ELSE "verwandte_produkte"
DesiredEmpty(k) == IF k = "snd" THEN applyCtx.sndEmpty ELSE applyCtx.accEmpty

\* faulty variant: a failed listing of the accessory metafield is reported
AfterMetafield_ReportsFailure(k) ==
    IF k = "snd" THEN Goto("acc_list")
    ELSE Finish(Result("update", IF applyCtx.listed[k] = "unlisted" THEN "error" ELSE "success", "ok"))

\* after a metafield sync: the next one, or the success record
AfterMetafield(k) ==
    IF k = "snd" THEN Goto("acc_list") ELSE Finish(Result("update", "success", "ok"))

\* _sync_stock_next_delivery_metafield / _sync_accessory_products_metafield:
\* list the product's metafields and look for the target
MetafieldList(k) ==
    /\ applyPc = k \o "_list"
    /\ Sent(Request("GET", "metafields:" \o MetafieldName(k), "_rest_call"))
    /\ \E o \in RestCallOutcomes, exists \in BOOLEAN :
         IF o.kind = "response" /\ o.status = 200
         THEN /\ applyCtx' = [applyCtx EXCEPT !.target = exists,
                                          !.listed[k] = IF exists THEN "exists" ELSE "absent"]
              /\ IF DesiredEmpty(k) /\ ~exists THEN AfterMetafield(k) ELSE Goto(k \o "_mut")
         ELSE /\ ~exists
              /\ UNCHANGED applyCtx
              /\ AfterMetafield(k)
    /\ UNCHANGED primary_location_id
    /\ UNCHANGED notApply

\* faulty variant: an existing metafield is updated to the empty value
MetafieldCall_UpsertOnly(k) ==
    IF applyCtx.target THEN Request("PUT", "metafield:" \o MetafieldName(k), "_rest_call")
    ELSE Request("POST", "metafields:" \o MetafieldName(k), "_rest_call")

MetafieldCall(k) ==
    IF DesiredEmpty(k) THEN Request("DELETE", "metafield:" \o MetafieldName(k), "_rest_call")
    ELSE IF applyCtx.target THEN Request("PUT", "metafield:" \o MetafieldName(k), "_rest_call")
    ELSE Request("POST", "metafields:" \o MetafieldName(k), "_rest_call")

\* the one mutating call of the metafield sync
MetafieldMutate(k) ==
    /\ applyPc = k \o "_mut"
    /\ Sent(MetafieldCall(k))
    /\ \E o \in RestCallOutcomes : AfterMetafield(k)
    /\ UNCHANGED <<applyCtx, primary_location_id>>
    /\ UNCHANGED notApply

NextApply ==
    \/ ApplyBegin
    \/ ApplyLoopDone
    \/ SendSingleProduct
    \/ DeleteProductById
    \/ UpdateLookup
    \/ UpdatePut
    \/ InvGetProduct
    \/ InvGetLocation
    \/ InvEnableVariant
    \/ InvEnableItem
    \/ InvSetLevel
    \/ \E k \in MetafieldKeys : MetafieldList(k)
    \/ \E k \in MetafieldKeys : MetafieldMutate(k)

SpecApply == InitApply /\ [][NextApply]_vars

Mutating(request) ==
    request.method \in {"POST", "PUT", "DELETE"} /\ request.via # "_graphql"

\* C2: every mutating request (product create, update and delete, inventory
\* and metafield mutations) is issued through _rest_call.
CE_C2_MutationsThroughRestCall ==
    \A i \in 1..Len(applyLog) : Mutating(applyLog[i]) => applyLog[i].via = "_rest_call"

\* C5: every apply operation ends by returning a status record (success or
\* error), also after an exception of the HTTP layer, exhausted retries or a
\* non-success response; none raises into the loop, so the loop reaches its
\* end with one record per item.
Thm_C5_PerItemFailure ==
    /\ applyPc # "aborted"
    /\ \A i \in 1..Len(applyResults) : applyResults[i].status \in {"success", "error"}
    /\ Len(applyResults) = applyPos
    /\ applyPc = "done" => Len(applyResults) = MaxItems

\* an item that failed on an exception is followed by an item that succeeded
Wit_C5_PerItemFailure ==
    /\ applyPc = "done"
    /\ applyResults[1] = Result("update", "error", "exception")
    /\ applyResults[MaxItems].status = "success"

\* ------------------------------------------------------------------------
\* Create batching: send_products_batch. Products are numbered 1..bN in
\* input order; the tasks of one batch run concurrently under gather.
\* ------------------------------------------------------------------------
MaxProducts == 3
MaxBatch == 3
DefaultBatchSize == 10

BatchSizeInputs ==
    {[kind |-> "int", val |-> v] : v \in (0 - 1)..MaxBatch}
        \cup {[kind |-> "digits", val |-> 2], [kind |-> "text", val |-> 0],
              [kind |-> "none", val |-> 0], [kind |-> "missing", val |-> 0]}

\* int(batch_size); TypeError and ValueError give None
IntOrNone(b) ==
    IF b.kind = "missing" THEN [ok |-> TRUE, val |-> DefaultBatchSize]
    ELSE IF b.kind \in {"int", "digits"} THEN [ok |-> TRUE, val |-> b.val]
    ELSE [ok |-> FALSE, val |-> 0]

\* faulty variant: no floor of 1 for an empty product list
effective_batch_size_NoFloor(b, n) ==
    LET c == IntOrNone(b) IN IF ~c.ok \/ c.val <= 0 THEN n ELSE c.val

\* faulty variant: an unusable batch size sends the products one by one
effective_batch_size_OneByOne(b, n) ==
    LET c == IntOrNone(b) IN IF ~c.ok \/ c.val <= 0 THEN 1 ELSE c.val

\* if not batch_size or batch_size <= 0: len(products) if len(products) > 0 else 1
effective_batch_size(b, n) ==
    LET c == IntOrNone(b)
    IN IF ~c.ok \/ c.val <= 0 THEN (IF n > 0 THEN n ELSE 1) ELSE c.val

\* products[i:i + batch_size], as positions
Batch(i) == {p \in 1..bN : i < p /\ p <= i + bSize}

Settled(p) == bTasks[p] \in {"success", "error"}

\* faulty variant: the gather returns as soon as one task has settled
AllSettled_Any(i) == \E p \in Batch(i) : Settled(p)

\* asyncio.gather returns when every task of the batch has settled
AllSettled(i) == \A p \in Batch(i) : Settled(p)

InitBatch ==
    /\ bN \in 0..MaxProducts
    /\ bInput \in BatchSizeInputs
    /\ bSize = 0
    /\ bI = 0
    /\ bPc = "call"
    /\ bTasks = [p \in 1..bN |-> "none"]
    /\ bResults = <<>>
    /\ bPauses = 0
    /\ bRequests = 0
    /\ IdleBut("batch")

\* entry: the batch size is normalised; range() rejects a step of 0
BatchCall ==
    /\ bPc = "call"
    /\ bSize' = effective_batch_size(bInput, bN)
    /\ bPc' = IF bSize' = 0 THEN "raised" ELSE "loop"
    /\ UNCHANGED <<bN, bInput, bI, bTasks, bResults, bPauses, bRequests>>
    /\ UNCHANGED notBatch

\* one loop round: the coroutines of the batch are handed to gather
BatchGather ==
    /\ bPc = "loop"
    /\ bI < bN
    /\ bTasks' = [p \in 1..bN |-> IF p \in Batch(bI) THEN "scheduled" ELSE bTasks[p]]
    /\ bPc' = "gather"
    /\ UNCHANGED <<bN, bInput, bSize, bI, bResults, bPauses, bRequests>>
    /\ UNCHANGED notBatch

\* a task runs up to its POST
TaskSend(p) ==
    /\ bPc = "gather"
    /\ bTasks[p] = "scheduled"
    /\ bTasks' = [bTasks EXCEPT ![p] = "inflight"]
    /\ bRequests' = bRequests + 1
    /\ UNCHANGED <<bN, bInput, bSize, bI, bPc, bResults, bPauses>>
    /\ UNCHANGED notBatch

\* _send_single_product returns its record
TaskSettle(p) ==
    /\ bPc = "gather"
    /\ bTasks[p] = "inflight"
    /\ \E st \in {"success", "error"} : bTasks' = [bTasks EXCEPT ![p] = st]
    /\ UNCHANGED <<bN, bInput, bSize, bI, bPc, bResults, bPauses, bRequests>>
    /\ UNCHANGED notBatch

BatchResults(i) ==
    LET last == IF i + bSize < bN THEN i + bSize ELSE bN
    IN [k \in 1..(last - i) |-> [product |-> i + k, status |-> bTasks[i + k]]]

\* gather returns the results in task order; results.extend; pause or go on
GatherDone ==
    /\ bPc = "gather"
    /\ AllSettled(bI)
    /\ bResults' = bResults \o BatchResults(bI)
    /\ IF bI + bSize < bN
       THEN /\ bPc' = "pause"
            /\ UNCHANGED bI
       ELSE /\ bPc' = "loop"
            /\ bI' = bI + bSize
    /\ UNCHANGED <<bN, bInput, bSize, bTasks, bPauses, bRequests>>
    /\ UNCHANGED notBatch

\* asyncio.sleep(1) between batches is over
PauseElapse ==
    /\ bPc = "pause"
    /\ bPauses' = bPauses + 1
    /\ bI' = bI + bSize
    /\ bPc' = "loop"
    /\ UNCHANGED <<bN, bInput, bSize, bTasks, bResults, bRequests>>
    /\ UNCHANGED notBatch

BatchReturn ==
    /\ bPc = "loop"
    /\ bI >= bN
    /\ bPc' = "returned"
    /\ UNCHANGED <<bN, bInput, bSize, bI, bTasks, bResults, bPauses, bRequests>>
    /\ UNCHANGED notBatch

NextBatch ==
    \/ BatchCall
    \/ BatchGather
    \/ \E p \in 1..bN : TaskSend(p)
    \/ \E p \in 1..bN : TaskSettle(p)
    \/ GatherDone
    \/ PauseElapse
    \/ BatchReturn

SpecBatch == InitBatch /\ [][NextBatch]_vars

\* 0-based number of the batch a product belongs to
BatchOf(p) == (p - 1) \div bSize
NumBatches == IF bN = 0 THEN 0 ELSE BatchOf(bN) + 1
Dispatched(p) == bTasks[p] \in {"inflight", "success", "error"}

\* C6: at most batch_size create calls are in flight at once; a call of a
\* later batch is dispatched only after every call of every earlier batch has
\* settled and the pause before its batch has elapsed; there is one pause
\* between consecutive batches and none after the last.
Thm_C6_BatchBarrier ==
    /\ bPc \in {"loop", "gather", "pause", "returned"} =>
         /\ Cardinality({p \in 1..bN : bTasks[p] = "inflight"}) <= bSize
         /\ \A p \in 1..bN : Dispatched(p) =>
              /\ \A q \in 1..bN : BatchOf(q) < BatchOf(p) => Settled(q)
              /\ bPauses >= BatchOf(p)
         /\ bPauses <= (IF NumBatches = 0 THEN 0 ELSE NumBatches - 1)
    /\ bPc = "returned" => bPauses = (IF NumBatches = 0 THEN 0 ELSE NumBatches - 1)

\* the second batch is in flight after the first settled and one pause
Wit_C6_BatchBarrier ==
    /\ bN = 3
    /\ bSize = 2
    /\ bPc = "gather"
    /\ bTasks = <<"error", "success", "inflight">>
    /\ bPauses = 1

\* the batch size the call is given is a positive integer: as a number, as
\* digits, or as the default of the parameter when the argument is omitted
GivenPositive(b) ==
    \/ b.kind \in {"int", "digits"} /\ b.val > 0
    \/ b.kind = "missing"
GivenValue(b) == IF b.kind = "missing" THEN DefaultBatchSize ELSE b.val

\* C30: send_products_batch uses the given batch size when it is a positive
\* integer; for None (the missing field of the request), a non-numeric, zero
\* or negative batch size it uses one batch with all products, of size
\* max(len(products), 1); the size is never below 1, the loop only moves
\* forward, and every product is dispatched exactly once.
Thm_C30_EffectiveBatchSize ==
    /\ [](bPc \notin {"idle", "call"} =>
            /\ bPc # "raised"
            /\ bSize >= 1
            /\ GivenPositive(bInput) => bSize = GivenValue(bInput)
            /\ ~GivenPositive(bInput) =>
                  /\ bSize = (IF bN > 0 THEN bN ELSE 1)
                  /\ NumBatches <= 1
                  /\ bPauses = 0
            /\ bRequests = Cardinality({p \in 1..bN : Dispatched(p)})
            /\ bPc = "returned" => (bRequests = bN /\ \A p \in 1..bN : Settled(p)))
    /\ [][bI' # bI => bI' = bI + bSize /\ bSize >= 1]_vars
    /\ [][\A p \in 1..bN : Dispatched(p) => Dispatched(p)']_vars

\* three products and no batch size in the request: one batch of three, no
\* pause, three requests
Wit_C30_EffectiveBatchSize ==
    /\ bPc = "returned"
    /\ bInput = [kind |-> "none", val |-> 0]
    /\ bN = 3
    /\ bSize = 3
    /\ bPauses = 0
    /\ bRequests = 3

\* C7: send_products_batch returns one entry per input product, in input
\* order, whatever the batch size; for an empty list it returns the empty
\* list without any request and without a pause.
Thm_C7_OneResultPerProduct ==
    /\ bPc # "raised"
    /\ \A k \in 1..Len(bResults) : bResults[k].product = k
    /\ bPc = "returned" =>
         /\ Len(bResults) = bN
         /\ \A k \in 1..bN : bResults[k].status = bTasks[k] /\ Settled(k)
         /\ bN = 0 => (bResults = <<>> /\ bRequests = 0 /\ bPauses = 0)

\* the empty list has been answered
Wit_C7_OneResultPerProduct ==
    /\ bPc = "returned"
    /\ bN = 0
    /\ bInput = [kind |-> "int", val |-> 2]
    /\ bResults = <<>>

\* ------------------------------------------------------------------------
\* Bulk export: fetch_all_products_bulk_full / fetch_all_product_handles_bulk
\* against the shop's current bulk operation. Time is counted in poll
\* intervals. A result url is identified with the job it belongs to.
\* ------------------------------------------------------------------------
MaxJobs == 3
TimeoutPolls == 3

ActiveStatuses == {"CREATED", "RUNNING", "CANCELING"}
JobStatuses == ActiveStatuses \cup {"COMPLETED", "FAILED", "CANCELED", "EXPIRED"}
Job(id, status, url) == [id |-> id, status |-> status, url |-> url]

\* the shop before the call: no bulk job yet, or one of an earlier run
InitialJobs ==
    {NoJob} \cup {Job(1, st, st = "COMPLETED") : st \in {"RUNNING", "COMPLETED", "FAILED", "CANCELED"}}

\* the lifecycle of a bulk job on the shop
JobSuccessors(j) ==
    IF j.status = "CREATED" THEN {Job(j.id, "RUNNING", FALSE)}
    ELSE IF j.status = "RUNNING"
         THEN {Job(j.id, "COMPLETED", TRUE), Job(j.id, "COMPLETED", FALSE),
               Job(j.id, "FAILED", FALSE), Job(j.id, "CANCELING", FALSE)}
    ELSE IF j.status = "CANCELING" THEN {Job(j.id, "CANCELED", FALSE)}
    ELSE IF j.status = "COMPLETED" THEN {Job(j.id, "EXPIRED", FALSE)}
    ELSE {}

\* op.get('status') of currentBulkOperation
ObservedStatus(j) == IF j.id = 0 THEN None ELSE j.status

\* faulty variant: only FAILED is a hard error
HardError_FailedOnly(status) == status = "FAILED"

\* if status in ('FAILED', 'CANCELED'): raise RuntimeError
HardError(status) == status \in {"FAILED", "CANCELED"}

Outcome(kind, id) == [kind |-> kind, job |-> id]

InitBulk ==
    /\ job \in InitialJobs
    /\ bulkPc = "start"
    /\ bulkSubmitted = 0
    /\ bulkElapsed = 0
    /\ bulkSeen = {}
    /\ bulkUrl = 0
    /\ bulkDownloaded = 0
    /\ bulkOutcome = NoOutcome
    /\ IdleBut("bulk")

\* start_products_bulk_full: the mutation is accepted, answered with
\* userErrors (only logged), or the request fails
BulkStart ==
    /\ bulkPc = "start"
    /\ \E answer \in {"accepted", "userErrors", "exception"} :
         \/ /\ answer = "accepted"
            /\ job.status \notin ActiveStatuses
            /\ job' = Job(job.id + 1, "CREATED", FALSE)
            /\ bulkSubmitted' = job.id + 1
            /\ bulkPc' = "poll"
            /\ UNCHANGED bulkOutcome
         \/ /\ answer = "userErrors"
            /\ bulkPc' = "poll"
            /\ UNCHANGED <<job, bulkSubmitted, bulkOutcome>>
         \/ /\ answer = "exception"
            /\ bulkPc' = "raised"
            /\ bulkOutcome' = Outcome("Exception", 0)
            /\ UNCHANGED <<job, bulkSubmitted>>
    /\ UNCHANGED <<bulkElapsed, bulkSeen, bulkUrl, bulkDownloaded>>
    /\ UNCHANGED notBulk

\* the shop advances its current job
JobProgress ==
    /\ \E next \in JobSuccessors(job) : job' = next
    /\ UNCHANGED <<bulkPc, bulkSubmitted, bulkElapsed, bulkSeen, bulkUrl, bulkDownloaded, bulkOutcome>>
    /\ UNCHANGED notBulk

\* another run submits a bulk job of its own
OtherRunStart ==
    /\ job.status \notin ActiveStatuses
    /\ job.id < MaxJobs
    /\ job' = Job(job.id + 1, "CREATED", FALSE)
    /\ UNCHANGED <<bulkPc, bulkSubmitted, bulkElapsed, bulkSeen, bulkUrl, bulkDownloaded, bulkOutcome>>
    /\ UNCHANGED notBulk

\* faulty variant: the elapsed time is never seen to advance
Elapse_Frozen(t, d) == t

\* _time.time() - start after d more poll intervals; past the timeout the
\* amount no longer matters
Elapse(t, d) == IF t + d > TimeoutPolls THEN TimeoutPolls + 1 ELSE t + d

\* one round of the polling loop up to the sleep
BulkPoll ==
    /\ bulkPc = "poll"
    /\ \E answered \in BOOLEAN, d \in {0, 1} :
         IF ~answered
         THEN /\ d = 0
              /\ bulkPc' = "raised"
              /\ bulkOutcome' = Outcome("Exception", 0)
              /\ UNCHANGED <<bulkElapsed, bulkSeen, bulkUrl>>
         ELSE LET status == ObservedStatus(job)
              IN /\ bulkSeen' = bulkSeen \cup {status}
                 /\ bulkElapsed' = Elapse(bulkElapsed, d)
                 /\ IF status = "COMPLETED"
                    THEN /\ bulkUrl' = IF job.url THEN job.id ELSE 0
                         /\ bulkPc' = IF job.url THEN "download" ELSE "returned"
                         /\ bulkOutcome' = IF job.url THEN bulkOutcome ELSE Outcome("empty", 0)
                    ELSE IF HardError(status)
                    THEN /\ bulkPc' = "raised"
                         /\ bulkOutcome' = Outcome("RuntimeError", 0)
                         /\ UNCHANGED bulkUrl
                    ELSE IF bulkElapsed' > TimeoutPolls
                    THEN /\ bulkPc' = "raised"
                         /\ bulkOutcome' = Outcome("TimeoutError", 0)
                         /\ UNCHANGED bulkUrl
                    ELSE /\ bulkPc' = "sleep"
                         /\ UNCHANGED <<bulkUrl, bulkOutcome>>
    /\ UNCHANGED <<job, bulkSubmitted, bulkDownloaded>>
    /\ UNCHANGED notBulk

\* asyncio.sleep(poll_interval_seconds)
BulkSleep ==
    /\ bulkPc = "sleep"
    /\ bulkElapsed' = Elapse(bulkElapsed, 1)
    /\ bulkPc' = "poll"
    /\ UNCHANGED <<job, bulkSubmitted, bulkSeen, bulkUrl, bulkDownloaded, bulkOutcome>>
    /\ UNCHANGED notBulk

\* fetch_bulk_result_file(url)
BulkDownload ==
    /\ bulkPc = "download"
    /\ bulkDownloaded' = bulkUrl
    /\ \E served \in BOOLEAN :
         IF served
         THEN /\ bulkPc' = "returned"
              /\ bulkOutcome' = Outcome("result", bulkUrl)
         ELSE /\ bulkPc' = "raised"
              /\ bulkOutcome' = Outcome("HTTPError", 0)
    /\ UNCHANGED <<job, bulkSubmitted, bulkElapsed, bulkSeen, bulkUrl>>
    /\ UNCHANGED notBulk

NextBulk ==
    \/ BulkStart
    \/ JobProgress
    \/ OtherRunStart
    \/ BulkPoll
    \/ BulkSleep
    \/ BulkDownload

SpecBulk == InitBulk /\ [][NextBulk]_vars

\* C8: the bulk read downloads and returns a result only after one of its
\* polls observed COMPLETED; once a poll observed FAILED or CANCELED the call
\* has raised its hard error, without a download and without a result.
Thm_C8_BulkReadSafety ==
    /\ bulkDownloaded # 0 => "COMPLETED" \in bulkSeen
    /\ bulkPc \in {"download", "returned"} => "COMPLETED" \in bulkSeen
    /\ bulkOutcome.kind \in {"result", "empty"} => "COMPLETED" \in bulkSeen
    /\ bulkSeen \cap {"FAILED", "CANCELED"} # {} =>
         /\ bulkPc = "raised"
         /\ bulkOutcome = Outcome("RuntimeError", 0)
         /\ bulkDownloaded = 0
         /\ bulkUrl = 0

\* The steps of the bulk read are awaited in turn by the event loop: each
\* request is answered or fails, each sleep ends. The shop is under no
\* obligation to advance its job.
SpecBulkFair ==
    /\ SpecBulk
    /\ WF_vars(BulkStart)
    /\ WF_vars(BulkPoll)
    /\ WF_vars(BulkSleep)
    /\ WF_vars(BulkDownload)

BulkEnded == bulkPc \in {"returned", "raised"}
TerminalStatuses == {"COMPLETED", "FAILED", "CANCELED"}

CE_C26_BulkJobIdentity ==
    /\ bulkDownloaded # 0 => bulkDownloaded = bulkSubmitted
    /\ bulkOutcome.kind = "result" => (bulkSubmitted # 0 /\ bulkOutcome.job = bulkSubmitted)

\* a result was downloaded after polls saw the job running, then completed
Wit_C8_BulkReadSafety ==
    /\ bulkPc = "returned"
    /\ bulkOutcome.kind = "result"
    /\ bulkDownloaded # 0
    /\ {"RUNNING", "COMPLETED"} \subseteq bulkSeen

\* the mutating requests of the sync of metafield k in the current item's log
MetafieldMutations(k) ==
    SelectSeq(applyLog, LAMBDA r : /\ Mutating(r)
                                   /\ r.target \in {"metafield:" \o MetafieldName(k),
                                                    "metafields:" \o MetafieldName(k)})

\* the call the pair (desired value empty, remote metafield exists) asks for
ExpectedMetafieldMethod(empty, exists) ==
    IF empty THEN (IF exists THEN "DELETE" ELSE None)
    ELSE (IF exists THEN "PUT" ELSE "POST")

\* the sync of metafield k has run to its end for the current item
MetafieldSyncOver(k) ==
    \/ k = "snd" /\ applyPc \in {"acc_list", "acc_mut"}
    \/ /\ applyPc \in {"next", "done"}
       /\ applyCtx.op = "update"
       /\ applyResults # <<>>
       /\ applyResults[Len(applyResults)].status = "success"

\* C11: the sync of StockNextDelivery and of verwandte_produkte issues at
\* most one mutating call, fixed by (desired value empty, remote metafield
\* exists): DELETE for empty and existing (never a PUT or POST of the empty
\* value), none for empty and absent, PUT for non-empty and existing, POST
\* for non-empty and absent.
Thm_C11_MetafieldSyncAction ==
    \A k \in MetafieldKeys :
        LET muts == MetafieldMutations(k)
            expected == ExpectedMetafieldMethod(DesiredEmpty(k), applyCtx.listed[k] = "exists")
        IN /\ Len(muts) <= 1
           /\ applyCtx.listed[k] = "unlisted" => muts = <<>>
           /\ \A i \in 1..Len(muts) : muts[i].method = expected
           /\ (MetafieldSyncOver(k) /\ applyCtx.listed[k] # "unlisted" /\ expected # None)
                => Len(muts) = 1

\* an empty StockNextDelivery that exists remotely was deleted, and a
\* non-empty verwandte_produkte that was absent was created
Wit_C11_MetafieldSyncAction ==
    /\ applyPc = "next"
    /\ applyCtx.op = "update"
    /\ applyCtx.sndEmpty /\ applyCtx.listed["snd"] = "exists"
    /\ ~applyCtx.accEmpty /\ applyCtx.listed["acc"] = "absent"
    /\ MetafieldMutations("snd") = <<Request("DELETE", "metafield:StockNextDelivery", "_rest_call")>>
    /\ MetafieldMutations("acc") = <<Request("POST", "metafields:verwandte_produkte", "_rest_call")>>

InventoryTargets == {"variant", "inventory_item", "inventory_levels/set"}

\* C12: no inventory call (enabling tracking on the variant or on the
\* inventory item, setting the inventory level) is issued during the update
\* of a product whose variants were expanded from warranty options, however
\* many options its group has.
CE_C12_NoInventoryForWarranty ==
    applyCtx.warranty =>
        \A i \in 1..Len(applyLog) : applyLog[i].target \notin InventoryTargets

\* the step of update_product_by_handle a request belongs to: 0 id
\* resolution, 1 primary PUT, 2 inventory sync, 3 next-delivery metafield
\* sync, 4 accessory metafield sync
StepOf(r) ==
    IF r.via = "_graphql" THEN 0
    ELSE IF r = Request("PUT", "product", "_rest_call") THEN 1
    ELSE IF r.target \in {"product", "locations"} \cup InventoryTargets THEN 2
    ELSE IF r.target \in {"metafields:StockNextDelivery", "metafield:StockNextDelivery"} THEN 3
    ELSE 4

StepsLogged == {StepOf(applyLog[i]) : i \in 1..Len(applyLog)}

\* the update of the current item has returned its record
UpdateReturned(status) ==
    /\ applyPc \in {"next", "done"}
    /\ applyCtx.op = "update"
    /\ applyResults # <<>>
    /\ applyResults[Len(applyResults)].status = status

\* C21: in update_product_by_handle the primary PUT comes first and the
\* supplementary steps run only after it, in the order inventory sync,
\* next-delivery metafield sync, accessory metafield sync, both metafield
\* syncs for every successful update; when the update ends in an error none
\* of them has run; and the loop starts the calls of an item only when every
\* earlier item has returned its record.
Thm_C21_UpdateStepOrdering ==
    /\ [](applyCtx.op = "update" =>
            /\ \A i, j \in 1..Len(applyLog) : i < j => StepOf(applyLog[i]) <= StepOf(applyLog[j])
            /\ Cardinality({i \in 1..Len(applyLog) : StepOf(applyLog[i]) = 1}) <= 1
            /\ (StepsLogged \cap {2, 3, 4} # {}) => 1 \in StepsLogged
            /\ UpdateReturned("error") => StepsLogged \cap {2, 3, 4} = {}
            /\ UpdateReturned("success") => {1, 3, 4} \subseteq StepsLogged)
    /\ [][Len(applyLog') > Len(applyLog) =>
            (applyPc \notin {"next", "done"} /\ Len(applyResults) = applyPos)]_vars
    /\ [][(applyPc = "next" /\ applyPc' \notin {"next", "done"}) =>
            (applyLog' = <<>> /\ Len(applyResults) = applyPos)]_vars

\* the second item of the loop was updated with all its steps: the primary
\* PUT, the inventory level set and both metafield syncs
Wit_C21_UpdateStepOrdering ==
    /\ UpdateReturned("success")
    /\ applyPos = 2
    /\ StepsLogged = {0, 1, 2, 3, 4}
    /\ \E i \in 1..Len(applyLog) : applyLog[i].target = "inventory_levels/set"

LevelSet == Request("POST", "inventory_levels/set", "_rest_call")
LevelSetIssued == \E i \in 1..Len(applyLog) : applyLog[i] = LevelSet

\* C22: in _update_inventory_for_product the inventory-level set call is
\* issued only when tracking is enabled on the variant: it was enabled
\* already (and then no enable call is made), or the enable call on the
\* variant and the one on the inventory item both succeeded before it; with
\* tracking disabled and an enable call failed, no set call is issued.
Thm_C22_InventorySyncOrdering ==
    applyCtx.op = "update" =>
        /\ LevelSetIssued =>
              \/ applyCtx.tracking
              \/ applyCtx.enable = [variant |-> "ok", inventory_item |-> "ok"]
        /\ (~applyCtx.tracking /\ "failed" \in {applyCtx.enable.variant, applyCtx.enable.inventory_item})
              => ~LevelSetIssued
        /\ applyCtx.tracking => applyCtx.enable = [variant |-> "none", inventory_item |-> "none"]
        /\ applyCtx.enable.inventory_item # "none" => applyCtx.enable.variant = "ok"
        /\ \A i, j \in 1..Len(applyLog) :
              (applyLog[i].target \in {"variant", "inventory_item"} /\ applyLog[j] = LevelSet) => i < j

\* tracking was off, both enable calls succeeded and the level was set
Wit_C22_InventorySyncOrdering ==
    /\ applyCtx.op = "update"
    /\ ~applyCtx.tracking
    /\ applyCtx.enable = [variant |-> "ok", inventory_item |-> "ok"]
    /\ LevelSetIssued

\* the requests of the id resolution, in the order they were made
Lookups == SelectSeq(applyLog, LAMBDA r : r.via = "_graphql")

\* C23: update_product_by_handle makes the exact handle lookup first, then
\* the lookups of the case variants, then the SKU search, and stops at the
\* first hit; the SKU search is made only after the exact lookup and every
\* candidate missed; when everything misses the call returns the not-found
\* error record and has issued no mutating call.
Thm_C23_IdentifierResolution ==
    (applyCtx.op = "update" /\ applyCtx.found # NoLookup) =>
        LET found == applyCtx.found
        IN /\ Lookups[1] = HandleLookup
           /\ \A i \in 1..Len(Lookups) :
                 Lookups[i] = SkuSearch => (i = Len(Lookups) /\ i = found.candidates + 2)
           /\ found.by = "exact" => Lookups = <<HandleLookup>>
           /\ found.by = "variant" =>
                 (Len(Lookups) = 1 + found.tried /\ found.tried <= found.candidates)
           /\ found.by = "sku" => Lookups[Len(Lookups)] = SkuSearch
           /\ found.by = "missing" =>
                 /\ Len(Lookups) >= 1 + found.candidates
                 /\ applyLog = Lookups
                 /\ \A i \in 1..Len(applyLog) : ~Mutating(applyLog[i])
                 /\ applyPc \in {"next", "done"}
                 /\ applyResults[Len(applyResults)] = Result("update", "error", "not_found")
           /\ found.by # "missing" => applyLog # Lookups \/ applyPc = "put"

\* the exact lookup and three case variants missed, the SKU search missed
\* too, and the update returned not found
Wit_C23_IdentifierResolution ==
    /\ applyCtx.op = "update"
    /\ applyCtx.found.by = "missing"
    /\ applyLog = <<HandleLookup, HandleLookup, HandleLookup, HandleLookup, SkuSearch>>
    /\ applyResults[Len(applyResults)] = Result("update", "error", "not_found")

\* the update of the current item has returned some record
UpdateOver ==
    applyPc \in {"next", "done"} /\ applyCtx.op = "update" /\ applyResults # <<>>

\* C28 as stated: update_product_by_handle returns status success if and
\* only if the primary PUT returned 200.
CE_C28_UpdateResult ==
    UpdateOver =>
        (applyResults[Len(applyResults)].status = "success"
            <=> applyCtx.put \in {"200", "200 unparsable"})

\* C28, amended: update_product_by_handle returns status success if and only
\* if the primary PUT returned 200 with a body that parses; the supplementary
\* steps run only then, and whatever fails in the inventory sync or in a
\* metafield sync the record stays the same success record.
Thm_C28_UpdateResult ==
    applyCtx.op = "update" =>
        /\ UpdateOver =>
              (applyResults[Len(applyResults)].status = "success" <=> applyCtx.put = "200")
        /\ UpdateReturned("success") =>
              applyResults[Len(applyResults)] = Result("update", "success", "ok")
        /\ StepsLogged \cap {2, 3, 4} # {} => applyCtx.put = "200"

\* enabling tracking failed and both metafield listings failed, and the
\* update returned success
Wit_C28_UpdateResult ==
    /\ UpdateReturned("success")
    /\ applyCtx.enable.variant = "failed"
    /\ applyCtx.listed = [snd |-> "unlisted", acc |-> "unlisted"]
    /\ StepsLogged = {0, 1, 2, 3, 4}

\* ------------------------------------------------------------------------
\* Record merger and canonical transformer: merge_data, process_products and
\* _create_shopify_product. Rows are records; a missing or None field is
\* Nothing, an image payload is a sequence of characters, prices are cents.
\* ------------------------------------------------------------------------
MaxImages == 2
MaxWarranties == 2

Some(v) == [some |-> TRUE, val |-> v]
Nothing == [some |-> FALSE, val |-> 0]

\* a text column holds text, or some other value of the database driver
Column(kind) == [kind |-> kind]

ProductRow(id, group, warranty, price) ==
    [ProductId |-> id, Garantiegruppe |-> group, Warranty |-> warranty, Price |-> price,
     CategoryPath |-> Column("text")]
ImageRow(aid, raw, primary) == [supplier_aid |-> aid, base64 |-> raw, IsPrimary |-> primary]
Pct(kind, val) == [kind |-> kind, val |-> val]
WarrantyRow(id, name, monate, pct, group) ==
    [id |-> id, name |-> name, monate |-> monate, prozentsatz |-> pct, garantiegruppe |-> group]

NoImage == ImageRow(0, <<>>, 0)
NoWarranty == WarrantyRow(0, "", 0, Pct("none", 0), Nothing)

\* product 1 in every combination of warranty group and warranty text
VariedProducts ==
    {ProductRow(1, g, w, 1026) : g \in {Nothing, Some(0), Some(1)}, w \in {"", "2 Jahre"}}
OtherProduct == ProductRow(2, Some(1), "", 2001)
\* product 2 as it is, or with a number in its CategoryPath column
OtherProducts == {OtherProduct, [OtherProduct EXCEPT !.CategoryPath = Column("number")]}
ProductLists ==
    {<<>>} \cup {<<p>> : p \in VariedProducts}
        \cup {<<p, o>> : p \in VariedProducts, o \in OtherProducts}
        \cup {<<o, p>> : p \in VariedProducts, o \in OtherProducts}

\* payloads: hex, prefixed hex, hex in capitals, text, a bare prefix, empty
ImageRows ==
    {ImageRow(1, <<"a", "a">>, 1), ImageRow(1, <<"a", "a">>, 0),
     ImageRow(1, <<"0", "x", "A", "A">>, 0), ImageRow(1, <<"z", "z">>, 0),
     ImageRow(1, <<"z", "z">>, 1), ImageRow(1, <<>>, 1), ImageRow(1, <<"0", "x">>, 1),
     ImageRow(2, <<"z", "z">>, 1)}

\* percentages arrive as int/Decimal ("number") or as float
WarrantyRows ==
    {WarrantyRow(1, "Plus", 12, Pct("number", 10), Some(1)),
     WarrantyRow(2, "Max", 24, Pct("number", 15), Some(1)),
     WarrantyRow(2, "Max", 24, Pct("float", 15), Some(1)),
     WarrantyRow(3, "Basis", 12, Pct("number", 0), Some(0))}

\* {**base_item, **image} / {**base_item, **warranty} / base_item
JoinedRow(p, img, war, joined) ==
    [ProductId |-> p.ProductId, Garantiegruppe |-> p.Garantiegruppe,
     Warranty |-> p.Warranty, Price |-> p.Price, CategoryPath |-> p.CategoryPath,
     supplier_aid |-> img.supplier_aid, base64 |-> img.base64, IsPrimary |-> img.IsPrimary,
     id |-> war.id, name |-> war.name, monate |-> war.monate, prozentsatz |-> war.prozentsatz,
     garantiegruppe |-> war.garantiegruppe, joined |-> joined]

\* list.sort(key=..., reverse=True): descending by key, equal keys keep
\* their order
RECURSIVE InsertByKeyDesc(_, _)
InsertByKeyDesc(x, s) ==
    IF s = <<>> THEN <<x>>
    ELSE IF x.IsPrimary > Head(s).IsPrimary THEN <<x>> \o s
    ELSE <<Head(s)>> \o InsertByKeyDesc(x, Tail(s))

\* faulty variant: the bucket keeps its arrival order
SortPrimaryFirst_Unsorted(s) == s

RECURSIVE SortPrimaryFirst(_)
SortPrimaryFirst(s) ==
    IF s = <<>> THEN <<>>
    ELSE InsertByKeyDesc(s[Len(s)], SortPrimaryFirst(SubSeq(s, 1, Len(s) - 1)))

\* images_by_product[product_id] after the sort; rows without supplier_aid
\* are in no bucket
images_by_product(imgs, product_id) ==
    SortPrimaryFirst(SelectSeq(imgs, LAMBDA i : i.supplier_aid # 0 /\ i.supplier_aid = product_id))

\* warranties_by_group[group]; rows without garantiegruppe are in no bucket
warranties_by_group(wars, group) ==
    SelectSeq(wars, LAMBDA w : w.garantiegruppe.some /\ w.garantiegruppe = group)

\* faulty variant: the bare row is added whenever the product has no image
NeedsBareRow_NoImage(nimages, noptions) == nimages = 0

\* the bare row is added when the product has no image bucket and no
\* warranty bucket
NeedsBareRow(nimages, noptions) == nimages = 0 /\ noptions = 0

\* the joined rows one product contributes
RowsOfProduct(p, imgs, wars) ==
    LET own == images_by_product(imgs, p.ProductId)
        opts == IF p.Garantiegruppe.some THEN warranties_by_group(wars, p.Garantiegruppe)
                ELSE <<>>
    IN [k \in 1..Len(own) |-> JoinedRow(p, own[k], NoWarranty, "image")]
         \o [k \in 1..Len(opts) |-> JoinedRow(p, NoImage, opts[k], "warranty")]
         \o (IF NeedsBareRow(Len(own), Len(opts))
             THEN <<JoinedRow(p, NoImage, NoWarranty, "bare")>> ELSE <<>>)

RECURSIVE merge_data(_, _, _)
merge_data(prods, imgs, wars) ==
    IF prods = <<>> THEN <<>>
    ELSE RowsOfProduct(Head(prods), imgs, wars) \o merge_data(Tail(prods), imgs, wars)

InitCat ==
    /\ products \in ProductLists
    /\ images \in SeqsUpTo(ImageRows, MaxImages)
    /\ warranties \in SeqsUpTo(WarrantyRows, MaxWarranties)
    /\ merged_items = <<>>
    /\ shopify_products = <<>>
    /\ catPc = "fetched"
    /\ IdleBut("cat")

MergeData ==
    /\ catPc = "fetched"
    /\ merged_items' = merge_data(products, images, warranties)
    /\ catPc' = "merged"
    /\ UNCHANGED <<products, images, warranties, shopify_products>>
    /\ UNCHANGED notCat

\* to_base64 on a string: strip a leading 0x, decode as hex, and fall back to
\* the text's own bytes when it is not hex. The result stands for the base64
\* text of these bytes (b64encode is one-to-one); no bytes give ''.
HexDigits == {"0", "a", "A"}
HexValue(c) == IF c = "0" THEN 0 ELSE 10
CharCode(c) ==
    IF c = "0" THEN 48 ELSE IF c = "x" THEN 120 ELSE IF c = "a" THEN 97
    ELSE IF c = "A" THEN 65 ELSE 122

StripPrefix(raw) ==
    IF Len(raw) >= 2 /\ raw[1] = "0" /\ raw[2] = "x" THEN SubSeq(raw, 3, Len(raw)) ELSE raw

IsHex(text) == Len(text) % 2 = 0 /\ \A i \in 1..Len(text) : text[i] \in HexDigits

HexBytes(text) ==
    [k \in 1..(Len(text) \div 2) |-> 16 * HexValue(text[2 * k - 1]) + HexValue(text[2 * k])]

TextBytes(text) == [k \in 1..Len(text) |-> CharCode(text[k])]

to_base64(raw) ==
    IF raw = <<>> THEN <<>>
    ELSE LET text == StripPrefix(raw)
         IN IF IsHex(text) THEN HexBytes(text) ELSE TextBytes(text)

\* faulty variant: every row opens a product of its own
ProductIdsInOrder_PerRow(items) == [k \in 1..Len(items) |-> items[k].ProductId]

\* the keys of product_map in insertion order; rows without ProductId are
\* skipped
ProductIdsInOrder(items) ==
    LET firsts == SelectSeq([k \in 1..Len(items) |-> k],
                            LAMBDA k : /\ items[k].ProductId # 0
                                       /\ \A j \in 1..(k - 1) : items[j].ProductId # items[k].ProductId)
    IN [n \in 1..Len(firsts) |-> items[firsts[n]].ProductId]

RowsOf(items, product_id) == SelectSeq(items, LAMBDA r : r.ProductId = product_id)

\* current['_images']: encoded payloads, empty ones skipped, each value once
RECURSIVE CollectImages(_, _)
CollectImages(rows, seen) ==
    IF rows = <<>> THEN seen
    ELSE LET img_val == to_base64(Head(rows).base64)
         IN CollectImages(Tail(rows),
                          IF img_val # <<>> /\ \A i \in 1..Len(seen) : seen[i] # img_val
                          THEN Append(seen, img_val) ELSE seen)

\* current['_warranties']: rows carrying a name and a percentage
CollectWarranties(rows) ==
    SelectSeq(rows, LAMBDA r : r.name # "" /\ r.prozentsatz.kind # "none")

Handle(product_id) == <<"prod-", product_id>>
Sku(product_id, option_id) == <<product_id, "G", option_id>>
PlainSku(product_id) == <<product_id>>

\* f"{price:.2f}" of base + base * percentage / 100, in cents; the
\* percentages and prices used here give no exact half cent
WarrantyPrice(base, pct) == (base * 100 + base * pct + 50) \div 100

\* faulty variant: any warranty group that is present counts, also 0
has_group_Present(product) == product.Garantiegruppe.some

\* int(product.get('Garantiegruppe') or 0) != 0
has_group(product) == product.Garantiegruppe.some /\ product.Garantiegruppe.val # 0

Label(product) == IF product.Warranty = "" THEN "Standard" ELSE product.Warranty

SingleVariant(product) ==
    [price |-> product.Price, sku |-> PlainSku(product.ProductId), option1 |-> Label(product),
     inventory_management |-> "shopify", option_id |-> 0]

\* warranties of the product's group, the first row of each option id
filtered_warranties(product, wars) ==
    SelectSeq([k \in 1..Len(wars) |-> [pos |-> k, row |-> wars[k]]],
              LAMBDA e : /\ e.row.garantiegruppe = product.Garantiegruppe
                         /\ \A j \in 1..(e.pos - 1) :
                              ~(/\ wars[j].garantiegruppe = product.Garantiegruppe
                                /\ wars[j].id = e.row.id))

\* Decimal(str(base_price)) * prozentsatz raises TypeError for a float and
\* the option is skipped
VariantBuilt(war) == war.prozentsatz.kind = "number"

\* option_label = f"{warranty_name} {months} Monate"
OptionLabel(war) == war.name \o " " \o ToString(war.monate) \o " Monate"

WarrantyVariant(product, war) ==
    [price |-> WarrantyPrice(product.Price, war.prozentsatz.val),
     sku |-> Sku(product.ProductId, war.id), option1 |-> OptionLabel(war),
     inventory_management |-> None, option_id |-> war.id]

\* the options of the product's group for which a variant is built
BuiltOptions(product, wars) ==
    SelectSeq(filtered_warranties(product, wars), LAMBDA e : VariantBuilt(e.row))

ExpandVariants(product, wars) ==
    IF ~has_group(product) THEN <<SingleVariant(product)>>
    ELSE LET built == BuiltOptions(product, wars)
         IN IF built = <<>> THEN <<SingleVariant(product)>>
            ELSE [k \in 1..Len(built) |-> WarrantyVariant(product, built[k].row)]

\* list(set(option_values)): the label of the single variant, or the names
\* of the options a variant was built for
OptionValues(product, wars) ==
    IF ~has_group(product) THEN {Label(product)}
    ELSE LET built == BuiltOptions(product, wars)
         IN IF built = <<>> THEN {Label(product)}
            ELSE {built[k].row.name : k \in 1..Len(built)}

\* the keys of the custom metafields: warranty only if not has_group
Metafields(product, wars) ==
    (IF ~has_group(product) THEN {"warranty"} ELSE {})
        \cup {"Inventarbestand", "StockNextDelivery", "Price_B2B_Regular",
               "Price_B2B_Discounted", "verwandte_produkte"}

\* product_map[product_id] is seeded from the product's first row
_create_shopify_product(rows) ==
    LET product == rows[1]
    IN [ProductId |-> product.ProductId,
        handle |-> Handle(product.ProductId),
        variants |-> ExpandVariants(product, CollectWarranties(rows)),
        options |-> OptionValues(product, CollectWarranties(rows)),
        metafields |-> Metafields(product, CollectWarranties(rows)),
        images |-> CollectImages(rows, <<>>)]

\* product.get('CategoryPath').split('|') raises AttributeError when the
\* column holds something other than text
CreateRaises(rows) == rows[1].CategoryPath.kind # "text"

\* faulty variant: the error of one product is not caught
CatchesProductError_None(exc) == FALSE

\* except Exception around _create_shopify_product: log and continue
CatchesProductError(exc) == TRUE

\* the records of the products whose construction did not raise
process_products(items) ==
    LET ids == SelectSeq(ProductIdsInOrder(items),
                         LAMBDA id : ~CreateRaises(RowsOf(items, id)))
    IN [n \in 1..Len(ids) |-> _create_shopify_product(RowsOf(items, ids[n]))]

\* an error that is not caught per product reaches the outer except: raise
ProcessRaises(items) ==
    \E k \in 1..Len(items) :
        CreateRaises(RowsOf(items, items[k].ProductId)) /\ ~CatchesProductError("AttributeError")

ProcessProducts ==
    /\ catPc = "merged"
    /\ IF ProcessRaises(merged_items)
       THEN /\ catPc' = "raised"
            /\ UNCHANGED shopify_products
       ELSE /\ shopify_products' = process_products(merged_items)
            /\ catPc' = "processed"
    /\ UNCHANGED <<products, images, warranties, merged_items>>
    /\ UNCHANGED notCat

NextCat ==
    \/ MergeData
    \/ ProcessProducts

SpecCat == InitCat /\ [][NextCat]_vars

\* the joined rows of a product that carry a warranty option of its group
OptionRows(product_id, group) ==
    SelectSeq(merged_items, LAMBDA r : /\ r.ProductId = product_id
                                       /\ r.joined = "warranty"
                                       /\ r.garantiegruppe = group)

\* the first row of an option id among rows
FirstWithId(rows, option_id) ==
    rows[CHOOSE k \in 1..Len(rows) :
            /\ rows[k].id = option_id
            /\ \A j \in 1..(k - 1) : rows[j].id # option_id]

SourceProduct(product_id) ==
    CHOOSE p \in Range(products) : p.ProductId = product_id

\* C13: a product with warranty group other than 0 whose joined rows carry N
\* distinct options of that group gets exactly N variants, one per option,
\* with SKU <productId>-G<optionId> and the base price raised by the
\* option's percentage, rounded to cents; for N = 0 it gets the one fallback
\* variant with base price and SKU <productId>.
CE_C13_WarrantyExpansion ==
    catPc = "processed" =>
        \A n \in 1..Len(shopify_products) :
            LET sp == shopify_products[n]
                p == SourceProduct(sp.ProductId)
                rows == OptionRows(p.ProductId, p.Garantiegruppe)
                ids == {rows[k].id : k \in 1..Len(rows)}
            IN has_group(p) =>
                 IF ids = {} THEN sp.variants = <<SingleVariant(p)>>
                 ELSE /\ Len(sp.variants) = Cardinality(ids)
                      /\ \A o \in ids : \E k \in 1..Len(sp.variants) :
                           /\ sp.variants[k].sku = Sku(p.ProductId, o)
                           /\ sp.variants[k].price =
                                WarrantyPrice(p.Price, FirstWithId(rows, o).prozentsatz.val)

\* C14: a product with warranty group 0 or without one gets exactly one
\* variant, labelled with its warranty text, or "Standard" when the text is
\* empty or missing, however many warranty rows were joined to it.
Thm_C14_SingleVariant ==
    catPc = "processed" =>
        \A n \in 1..Len(shopify_products) :
            LET sp == shopify_products[n]
                p == SourceProduct(sp.ProductId)
            IN (~p.Garantiegruppe.some \/ p.Garantiegruppe.val = 0) =>
                 /\ Len(sp.variants) = 1
                 /\ sp.variants[1].option1 = (IF p.Warranty = "" THEN "Standard" ELSE p.Warranty)
                 /\ sp.variants[1].sku = PlainSku(p.ProductId)

\* a product of group 0 with two joined warranty rows and one variant
\* labelled by its warranty text
Wit_C14_SingleVariant ==
    /\ catPc = "processed"
    /\ Len(products) = 1
    /\ products[1].Garantiegruppe = Some(0)
    /\ products[1].Warranty = "2 Jahre"
    /\ Len(OptionRows(1, Some(0))) = 2
    /\ Len(shopify_products) = 1
    /\ Len(shopify_products[1].variants) = 1
    /\ shopify_products[1].variants[1].option1 = "2 Jahre"

JoinedIds == {merged_items[k].ProductId : k \in 1..Len(merged_items)}

\* the identifiers whose record construction raises
FailingIds == {id \in JoinedIds : CreateRaises(RowsOf(merged_items, id))}

\* C15 as stated: process_products emits exactly one record per distinct
\* product identifier among the joined rows, with handle prod-<identifier>;
\* no identifier has two records and no two records share a handle.
CE_C15_OneRecordPerProduct ==
    catPc = "processed" =>
        /\ Len(shopify_products) = Cardinality(JoinedIds)
        /\ \A id \in JoinedIds :
             Cardinality({n \in 1..Len(shopify_products) :
                            shopify_products[n].ProductId = id}) = 1
        /\ \A n \in 1..Len(shopify_products) :
             shopify_products[n].handle = <<"prod-", shopify_products[n].ProductId>>

\* C15, amended: process_products emits exactly one record per distinct
\* product identifier among the joined rows whose record construction does
\* not fail, and none for the others, with handle prod-<identifier>; no
\* identifier has two records and no two records share a handle.
Thm_C15_OneRecordPerProduct ==
    catPc = "processed" =>
        /\ Len(shopify_products) = Cardinality(JoinedIds \ FailingIds)
        /\ \A id \in JoinedIds :
             Cardinality({n \in 1..Len(shopify_products) :
                            shopify_products[n].ProductId = id})
               = (IF id \in FailingIds THEN 0 ELSE 1)
        /\ \A n \in 1..Len(shopify_products) :
             /\ shopify_products[n].ProductId \in JoinedIds
             /\ shopify_products[n].handle = <<"prod-", shopify_products[n].ProductId>>
        /\ \A n, m \in 1..Len(shopify_products) :
             shopify_products[n].handle = shopify_products[m].handle => n = m

\* two products, the first with three joined rows, give two records
Wit_C15_OneRecordPerProduct ==
    /\ catPc = "processed"
    /\ JoinedIds = {1, 2}
    /\ Len(RowsOf(merged_items, 1)) = 3
    /\ Len(shopify_products) = 2
    /\ shopify_products[1].handle = <<"prod-", 1>>

\* the image rows a product owns and the warranty options of its group
OwnedImages(p) == {k \in 1..Len(images) : images[k].supplier_aid = p.ProductId}
GroupOptions(p) ==
    {k \in 1..Len(warranties) :
        p.Garantiegruppe.some /\ warranties[k].garantiegruppe = p.Garantiegruppe}

RowsJoined(p, joined) ==
    Cardinality({k \in 1..Len(merged_items) :
                   merged_items[k].ProductId = p.ProductId /\ merged_items[k].joined = joined})

\* C16: merge_data gives each product one joined row per image row it owns
\* plus one per warranty option of its group, and exactly one bare row when
\* it has neither: max(1, #images + #options) rows, at least one.
Thm_C16_MergeRowCount ==
    catPc \in {"merged", "processed"} =>
        \A i \in 1..Len(products) :
            LET p == products[i]
                ni == Cardinality(OwnedImages(p))
                no == Cardinality(GroupOptions(p))
            IN /\ RowsJoined(p, "image") = ni
               /\ RowsJoined(p, "warranty") = no
               /\ RowsJoined(p, "bare") = (IF ni + no = 0 THEN 1 ELSE 0)
               /\ Len(RowsOf(merged_items, p.ProductId)) = (IF ni + no = 0 THEN 1 ELSE ni + no)
               /\ Len(RowsOf(merged_items, p.ProductId)) >= 1

\* a product with neither (one bare row) before a product with one image
\* and one option (two rows)
Wit_C16_MergeRowCount ==
    /\ catPc = "merged"
    /\ Len(products) = 2
    /\ Cardinality(OwnedImages(products[1])) = 0
    /\ Cardinality(GroupOptions(products[1])) = 0
    /\ RowsJoined(products[1], "bare") = 1
    /\ Cardinality(OwnedImages(products[2])) = 1
    /\ Cardinality(GroupOptions(products[2])) = 1
    /\ Len(merged_items) = 3

\* the image rows of a product among the joined rows, in row order
ImageRowsOf(product_id) ==
    SelectSeq(merged_items, LAMBDA r : r.ProductId = product_id /\ r.joined = "image")

\* position of the first joined row of the product whose payload encodes to e
FirstSeen(product_id, e) ==
    LET rows == RowsOf(merged_items, product_id)
    IN CHOOSE k \in 1..Len(rows) :
           /\ to_base64(rows[k].base64) = e
           /\ \A j \in 1..(k - 1) : to_base64(rows[j].base64) # e

\* the input image rows of a product with a given primary flag, in input order
InputImages(product_id, flag) ==
    SelectSeq(images, LAMBDA i : i.supplier_aid = product_id /\ i.IsPrimary = flag)

\* C17: the image list of a record has no empty and no duplicate encoded
\* payload and is in first-seen order of the joined rows; the merger puts a
\* product's primary images before the others and keeps the input order
\* within each flag; so a product with a primary image of non-empty payload
\* has a primary image first.
Thm_C17_ImageList ==
    /\ catPc \in {"merged", "processed"} =>
         \A i \in 1..Len(products) :
             LET rows == ImageRowsOf(products[i].ProductId)
                 prim == InputImages(products[i].ProductId, 1)
                 rest == InputImages(products[i].ProductId, 0)
             IN [k \in 1..Len(rows) |-> ImageRow(rows[k].supplier_aid, rows[k].base64,
                                                  rows[k].IsPrimary)] = prim \o rest
    /\ catPc = "processed" =>
         \A n \in 1..Len(shopify_products) :
             LET sp == shopify_products[n]
                 rows == RowsOf(merged_items, sp.ProductId)
                 payloads == {to_base64(rows[k].base64) : k \in 1..Len(rows)} \ {<<>>}
                 primaries == {to_base64(rows[k].base64) :
                                 k \in {j \in 1..Len(rows) : rows[j].IsPrimary = 1}} \ {<<>>}
             IN /\ \A a \in 1..Len(sp.images) : sp.images[a] # <<>>
                /\ \A a, b \in 1..Len(sp.images) : sp.images[a] = sp.images[b] => a = b
                /\ {sp.images[a] : a \in 1..Len(sp.images)} = payloads
                /\ \A a, b \in 1..Len(sp.images) :
                     a < b => FirstSeen(sp.ProductId, sp.images[a])
                                < FirstSeen(sp.ProductId, sp.images[b])
                /\ primaries # {} => sp.images[1] \in primaries

\* a non-primary image arrives before the primary one; the record lists the
\* primary payload first
Wit_C17_ImageList ==
    /\ catPc = "processed"
    /\ images = <<ImageRow(1, <<"z", "z">>, 0), ImageRow(1, <<"a", "a">>, 1)>>
    /\ Len(shopify_products) >= 1
    /\ shopify_products[1].ProductId = 1
    /\ shopify_products[1].images = <<HexBytes(<<"a", "a">>), TextBytes(<<"z", "z">>)>>

\* C24: a record carries the custom.warranty metafield exactly when it was
\* produced in the single-variant case, which includes the fallback taken
\* when a warranty group is set but no variant was built from its options; no
\* record expanded into warranty-option variants carries it.
CE_C24_LegacyWarrantyMetafield ==
    catPc = "processed" =>
        \A n \in 1..Len(shopify_products) :
            LET sp == shopify_products[n]
                p == SourceProduct(sp.ProductId)
            IN ("warranty" \in sp.metafields) <=> (sp.variants = <<SingleVariant(p)>>)

\* C25: when the transformation of one product fails, process_products
\* does not raise and returns the records of all other products as it would
\* without the failing product, in the same order; only a product whose
\* record construction failed is missing, and a product with a failing
\* warranty option still has its record.
Thm_C25_TransformFailureIsolation ==
    /\ catPc # "raised"
    /\ catPc = "processed" =>
         LET others == SelectSeq(merged_items, LAMBDA r : r.ProductId \notin FailingIds)
         IN /\ shopify_products = process_products(others)
            /\ {shopify_products[n].ProductId : n \in 1..Len(shopify_products)}
                 = JoinedIds \ FailingIds
            /\ \A n \in 1..Len(shopify_products) :
                 shopify_products[n] =
                     _create_shopify_product(RowsOf(merged_items, shopify_products[n].ProductId))

\* the first product fails in its record construction and the second, one
\* of whose warranty options fails, is returned with the variant of the other
Wit_C25_TransformFailureIsolation ==
    /\ catPc = "processed"
    /\ Len(products) = 2
    /\ products[1].ProductId = 2
    /\ FailingIds = {2}
    /\ \E k \in 1..Len(merged_items) :
         merged_items[k].ProductId = 1 /\ merged_items[k].prozentsatz.kind = "float"
    /\ Len(shopify_products) = 1
    /\ shopify_products[1].ProductId = 1
    /\ Len(shopify_products[1].variants) = 1
    /\ shopify_products[1].variants[1].option_id = 1

\* C27: in every record the values of the 'Garantie' option are the option1
\* labels of its variants: every variant's label is a declared value and
\* every declared value is the label of some variant.
CE_C27_OptionVariantConsistency ==
    catPc = "processed" =>
        \A n \in 1..Len(shopify_products) :
            LET sp == shopify_products[n]
            IN sp.options = {sp.variants[k].option1 : k \in 1..Len(sp.variants)}

====
